---- MODULE Spec2Model ----
(***************************************************************************)
(* Model of the execution simulator of psi_freq_scalper                    *)
(* (src/psi_freq_scalper/exchanges/paper_trading.py, PaperTradingExchange) *)
(* together with the Position / Order / Trade records of                   *)
(* src/psi_freq_scalper/core/data_structures.py, of the decisions of the   *)
(* strategy (src/psi_freq_scalper/strategies/psi_freq_strategy.py,         *)
(* PsiFreqScalperStrategy), of the momentum calculator                     *)
(* (src/psi_freq_scalper/core/psi_frequency.py), of the aggregator and the *)
(* candle analyzer (src/psi_freq_scalper/data/timeframe_aggregator.py), of *)
(* the feature assembly (src/psi_freq_scalper/models/ml_models.py) and of  *)
(* the trading engine (src/psi_freq_scalper/core/engine.py).               *)
(*                                                                         *)
(* Specifications.  Spec: the simulator on one symbol.  SpecPortfolio:     *)
(* the simulator holding positions on two symbols.  SpecStrategy: the      *)
(* strategy's analyze, called once per iteration of the trading loop.      *)
(* SpecTrailing: the trailing stop of one position over a sequence of      *)
(* prices.  SpecTrajectory: calculate_trajectory over bar sequences.       *)
(* SpecCandles: the momentum score, the trend label and the aggregation    *)
(* over Candle sequences.  SpecFeatures: the feature vector over Candle    *)
(* sequences.  SpecEngine: the engine's run loop on the simulator, with    *)
(* the price feed and a second user of the simulator as its environment;   *)
(* SpecEngineFair adds that the loop's own steps are taken.  SpecMargin:   *)
(* the simulator with leveraged orders near the whole balance and bars far *)
(* apart.                                                                  *)
(*                                                                         *)
(* Numbers.  The program computes with Python floats.  The model computes  *)
(* with exact rationals <<n, d>> (d > 0, lowest terms), so that the        *)
(* commission rate 0.001, sizes such as 0.1 and size-weighted average      *)
(* entry prices are represented without loss.  Floating-point rounding is  *)
(* not modelled.                                                           *)
(*                                                                         *)
(* Left out of the records: the timestamps (datetime.now()), and the       *)
(* Order fields price / stop_price, which the simulator never reads.       *)
(***************************************************************************)
EXTENDS Integers, Sequences, FiniteSets, TLC

(***************************************************************************)
(* Exact rational arithmetic                                               *)
(***************************************************************************)
Abs(x) == IF x < 0 THEN -x ELSE x

RECURSIVE GCD(_, _)
GCD(a, b) == IF b = 0 THEN a ELSE GCD(b, a % b)

LCM(a, b) == (a \div GCD(a, b)) * b

\* the rational n/d (d # 0) in lowest terms with a positive denominator
Rat(n, d) ==
    LET g == GCD(Abs(n), Abs(d))
    IN  IF d < 0 THEN <<(-n) \div g, (-d) \div g>> ELSE <<n \div g, d \div g>>

RInt(n) == <<n, 1>>
RZero == <<0, 1>>

RAdd(a, b) ==
    IF a[2] = b[2]
    THEN Rat(a[1] + b[1], a[2])
    ELSE LET l == LCM(a[2], b[2])
         IN  Rat(a[1] * (l \div a[2]) + b[1] * (l \div b[2]), l)

RNeg(a) == <<-a[1], a[2]>>
RSub(a, b) == RAdd(a, RNeg(b))

RMul(a, b) ==
    IF a[1] = 0 \/ b[1] = 0
    THEN RZero
    ELSE LET g1 == GCD(Abs(a[1]), b[2])
             g2 == GCD(Abs(b[1]), a[2])
         IN  Rat((a[1] \div g1) * (b[1] \div g2), (a[2] \div g2) * (b[2] \div g1))

\* a / b, b # 0
RDiv(a, b) == RMul(a, Rat(b[2], b[1]))

\* denominators are positive, so the order is that of the cross products
RLt(a, b) == a[1] * b[2] < b[1] * a[2]
RLe(a, b) == a[1] * b[2] <= b[1] * a[2]
RGt(a, b) == RLt(b, a)
RGe(a, b) == RLe(b, a)

(***************************************************************************)
(* numpy float64 results that are not finite.  A division of arrays by     *)
(* zero does not raise: x / 0 is inf with the sign of x, 0 / 0 is nan.     *)
(* They are written as fractions with denominator 0.                       *)
(***************************************************************************)
NaN == <<0, 0>>
PosInf == <<1, 0>>
NegInf == <<-1, 0>>

IsFinite(a) == a[2] # 0

FAbs(a) == <<Abs(a[1]), a[2]>>

FAdd(a, b) ==
    IF IsFinite(a) /\ IsFinite(b) THEN RAdd(a, b)
    ELSE IF a = NaN \/ b = NaN THEN NaN
    ELSE IF IsFinite(b) THEN a
    ELSE IF IsFinite(a) THEN b
    ELSE IF a = b THEN a
    ELSE NaN

FMul(a, b) ==
    IF IsFinite(a) /\ IsFinite(b) THEN RMul(a, b)
    ELSE IF a = NaN \/ b = NaN THEN NaN
    ELSE IF a[1] = 0 \/ b[1] = 0 THEN NaN
    ELSE IF (a[1] > 0) = (b[1] > 0) THEN PosInf
    ELSE NegInf

FDiv(a, b) ==
    IF a = NaN \/ b = NaN THEN NaN
    ELSE IF IsFinite(a) /\ IsFinite(b)
         THEN IF b[1] # 0 THEN RDiv(a, b)
              ELSE IF a[1] = 0 THEN NaN
              ELSE IF a[1] > 0 THEN PosInf
              ELSE NegInf
    ELSE IF IsFinite(b) THEN (IF (a[1] > 0) = (b[1] >= 0) THEN PosInf ELSE NegInf)
    ELSE IF IsFinite(a) THEN RZero
    ELSE NaN

\* the sum of xs[lo..hi]; the additions are exact, so their grouping does not
\* change the value
RECURSIVE FSumOver(_, _, _)
FSumOver(xs, lo, hi) ==
    IF lo > hi THEN RZero
    ELSE IF lo = hi THEN FAdd(xs[lo], RZero)
    ELSE LET mid == (lo + hi) \div 2
         IN  FAdd(FSumOver(xs, lo, mid), FSumOver(xs, mid + 1, hi))

FSum(xs) == FSumOver(xs, 1, Len(xs))

\* np.mean of a non-empty array
FMean(xs) == FMul(FSum(xs), Rat(1, Len(xs)))

\* np.clip(x, lo, hi) = minimum(maximum(x, lo), hi): nan stays nan
Clip(x, lo, hi) ==
    IF x = NaN THEN NaN
    ELSE IF x = NegInf THEN lo
    ELSE IF x = PosInf THEN hi
    ELSE IF RLt(x, lo) THEN lo
    ELSE IF RGt(x, hi) THEN hi
    ELSE x

\* largest integer whose square is at most x (x >= 0)
RECURSIVE ISqrtIn(_, _, _)
ISqrtIn(x, lo, hi) ==
    IF lo = hi
    THEN lo
    ELSE LET mid == (lo + hi + 1) \div 2
         IN  IF mid * mid <= x THEN ISqrtIn(x, mid, hi) ELSE ISqrtIn(x, lo, mid - 1)

ISqrt(x) == ISqrtIn(x, 0, IF x < 46340 THEN x ELSE 46340)

\* the whole part of n * 10^k / d (n >= 0, d > 0), by long division
RECURSIVE Pow10(_)
Pow10(k) == IF k = 0 THEN 1 ELSE 10 * Pow10(k - 1)

RECURSIVE ScaledFloor(_, _, _)
ScaledFloor(n, d, k) ==
    IF k = 0
    THEN n \div d
    ELSE (n \div d) * Pow10(k) + ScaledFloor((n % d) * 10, d, k - 1)

\* square root of a rational q >= 0, cut to three decimals (float rounding is
\* not modelled)
RSqrt(q) == Rat(ISqrt(ScaledFloor(q[1], q[2], 6)), 1000)

(***************************************************************************)
(* Program constants                                                       *)
(***************************************************************************)
\* PaperTradingExchange(initial_balance=10000.0)
InitialBalance == 10000
\* commission = order.size * price * 0.001
CommissionRate == Rat(1, 1000)
\* Order.leverage default
DefaultLeverage == 1

NoPosition == [side |-> "none"]

(***************************************************************************)
(* Bounds and input sets                                                   *)
(***************************************************************************)
\* place_order calls made in one run
MaxOrders == 2
\* bars in a sequence given to the momentum calculator
MaxBars == 4
\* Candles in a sequence
MaxCandles == 7
MaxFeatureCandles == 11
\* readings of the clock that run() tells apart
MaxElapsed == 2

\* the engine trades one configured symbol
Symbols == {"BTC-USDT"}
Sides == {"buy", "sell"}
\* order sizes 0.1 and 0.2
Sizes == {Rat(1, 10), Rat(2, 10)}
Leverages == {1, 5}
\* closes of the 1-minute bars fed to the simulator
Prices == {RInt(50000), RInt(51000)}
\* <<symbol, stop_loss, take_profit>> written on an open position (0 = not
\* set): a bracket around 50000 for a long, a bracket around 50000 for a
\* short (for a long at 50000 both levels are then crossed at once), and each
\* level alone
StopInputs ==
    Symbols \X
        {<<RInt(49500), RInt(50500)>>, <<RInt(50500), RInt(49500)>>,
         <<RInt(50500), RZero>>, <<RZero, RInt(50500)>>}

\* orders given to place_order: every market order, and limit orders of one
\* size (a limit order is only stored)
OrderInputs ==
    [symbol : Symbols, side : Sides, order_type : {"market"},
     size : Sizes, leverage : Leverages]
    \cup [symbol : Symbols, side : Sides, order_type : {"limit"},
          size : {Rat(1, 10)}, leverage : {DefaultLeverage}]

(***************************************************************************)
(* State of PaperTradingExchange                                           *)
(***************************************************************************)
VARIABLES
    balance,        \* self.balance
    positions,      \* self.positions : symbol -> Position, NoPosition if absent
    orders,         \* self.orders : order id -> pending Order
    trades,         \* self.trades : list of Trade
    order_counter,  \* self.order_counter
    candle_cache,   \* self.candle_cache, 1-minute key: closes of the cached tail
    signal,         \* PsiFreqScalperStrategy.analyze: its last call, arguments and Signal
    trailed,        \* the Position whose stop the strategy layer trails
    bars,           \* closes of the bar sequence given to calculate_trajectory
    candles,        \* the Candle sequence given to the calculator, the aggregator
                    \* and the feature extraction
    is_running,     \* TradingEngine.is_running
    daily_trades,   \* TradingEngine.daily_trades
    pc,             \* where TradingEngine.run stands
    current_position, \* _trading_loop's local: the Position object it read
    duration,       \* run()'s argument: <<>> for None, <<d>> for d
    elapsed         \* time.time() - start_time

\* state of the execution simulator, and of the strategy and momentum layers
exchange_vars == <<balance, positions, orders, trades, order_counter, candle_cache>>
analysis_vars == <<signal, trailed, bars, candles>>
engine_vars == <<is_running, daily_trades, pc, current_position, duration, elapsed>>
clock_vars == <<duration, elapsed>>

vars == <<balance, positions, orders, trades, order_counter, candle_cache,
          signal, trailed, bars, candles,
          is_running, daily_trades, pc, current_position, duration, elapsed>>

\* before the first analyze call / before a position is trailed
NoSignal == [action |-> "none"]

Init ==
    /\ balance = RInt(InitialBalance)
    /\ positions = [s \in Symbols |-> NoPosition]
    /\ orders = <<>>
    /\ trades = <<>>
    /\ order_counter = 0
    /\ candle_cache = [s \in Symbols |-> <<>>]
    /\ signal = NoSignal
    /\ trailed = NoPosition
    /\ bars = <<>>
    /\ candles = <<>>
    /\ is_running = FALSE
    /\ daily_trades = 0
    /\ pc = "init"
    /\ current_position = NoPosition
    /\ duration = <<>>
    /\ elapsed = 0

HasPosition(s) == positions[s] # NoPosition

(***************************************************************************)
(* get_current_price: close of the last cached 1-minute bar, 0.0 if none   *)
(***************************************************************************)
GetCurrentPrice(s) ==
    IF Len(candle_cache[s]) > 0
    THEN candle_cache[s][Len(candle_cache[s])]
    ELSE RZero

(***************************************************************************)
(* add_candles.  get_current_price reads candles[-1] only, so the model    *)
(* keeps the last bar of the cache.                                        *)
(***************************************************************************)
AddCandles(s, close) ==
    /\ candle_cache' = [candle_cache EXCEPT ![s] = <<close>>]
    /\ UNCHANGED <<balance, positions, orders, trades, order_counter>>

(***************************************************************************)
(* _calculate_pnl                                                          *)
(***************************************************************************)
\* variant: the long branch subtracts the wrong way round
CalculatePnl_SignFlipped(position, exit_price) ==
    RMul(RSub(position.entry_price, exit_price), position.size)

CalculatePnl(position, exit_price) ==
    IF position.side = "long"
    THEN RMul(RSub(exit_price, position.entry_price), position.size)
    ELSE RMul(RSub(position.entry_price, exit_price), position.size)

(***************************************************************************)
(* Position.update_pnl                                                     *)
(***************************************************************************)
\* variant: the new mark is added to the stored value
UpdatePnl_Accumulates(position, current_price) ==
    [position EXCEPT !.unrealized_pnl =
        RAdd(@, IF position.side = "long"
                THEN RMul(RSub(current_price, position.entry_price), position.size)
                ELSE RMul(RSub(position.entry_price, current_price), position.size))]

UpdatePnl(position, current_price) ==
    [position EXCEPT !.unrealized_pnl =
        IF position.side = "long"
        THEN RMul(RSub(current_price, position.entry_price), position.size)
        ELSE RMul(RSub(position.entry_price, current_price), position.size)]

(***************************************************************************)
(* _open_position: the Position it stores                                  *)
(***************************************************************************)
OpenPosition(order, price) ==
    [side |-> IF order.side = "buy" THEN "long" ELSE "short",
     entry_price |-> price,
     size |-> order.size,
     leverage |-> order.leverage,
     stop_loss |-> RZero,
     take_profit |-> RZero,
     pyramiding_level |-> 0,
     unrealized_pnl |-> RZero]

(***************************************************************************)
(* _update_position: the position left for the symbol (NoPosition after a  *)
(* full close) and the amount credited to the balance                      *)
(***************************************************************************)
IsClosing(position, order) ==
    \/ position.side = "long" /\ order.side = "sell"
    \/ position.side = "short" /\ order.side = "buy"

\* variant: a partial close credits the PnL of the whole position
UpdatePosition_WholePnl(position, order, price) ==
    IF IsClosing(position, order)
    THEN IF RGe(order.size, position.size)
         THEN [pos |-> NoPosition, pnl |-> CalculatePnl(position, price)]
         ELSE [pos |-> [position EXCEPT !.size = RSub(position.size, order.size)],
               pnl |-> CalculatePnl(position, price)]
    ELSE LET total_size == RAdd(position.size, order.size)
         IN  [pos |-> [position EXCEPT
                         !.entry_price =
                             RDiv(RAdd(RMul(position.entry_price, position.size),
                                       RMul(price, order.size)),
                                  total_size),
                         !.size = total_size,
                         !.pyramiding_level = position.pyramiding_level + 1],
              pnl |-> RZero]

\* variant: an add averages the two prices without their sizes
UpdatePosition_PlainAverage(position, order, price) ==
    IF IsClosing(position, order)
    THEN IF RGe(order.size, position.size)
         THEN [pos |-> NoPosition, pnl |-> CalculatePnl(position, price)]
         ELSE [pos |-> [position EXCEPT !.size = RSub(position.size, order.size)],
               pnl |-> RMul(CalculatePnl(position, price),
                            RDiv(order.size, position.size))]
    ELSE [pos |-> [position EXCEPT
                     !.entry_price = RDiv(RAdd(position.entry_price, price), RInt(2)),
                     !.size = RAdd(position.size, order.size),
                     !.pyramiding_level = position.pyramiding_level + 1],
          pnl |-> RZero]

\* variant: the excess of a larger opposite order opens the other side
UpdatePosition_Reverses(position, order, price) ==
    IF IsClosing(position, order)
    THEN IF order.size = position.size
         THEN [pos |-> NoPosition, pnl |-> CalculatePnl(position, price)]
         ELSE IF RGt(order.size, position.size)
         THEN [pos |-> [position EXCEPT
                          !.side = IF position.side = "long" THEN "short" ELSE "long",
                          !.entry_price = price,
                          !.size = RSub(order.size, position.size)],
               pnl |-> CalculatePnl(position, price)]
         ELSE [pos |-> [position EXCEPT !.size = RSub(position.size, order.size)],
               pnl |-> RMul(CalculatePnl(position, price),
                            RDiv(order.size, position.size))]
    ELSE LET total_size == RAdd(position.size, order.size)
         IN  [pos |-> [position EXCEPT
                         !.entry_price =
                             RDiv(RAdd(RMul(position.entry_price, position.size),
                                       RMul(price, order.size)),
                                  total_size),
                         !.size = total_size,
                         !.pyramiding_level = position.pyramiding_level + 1],
              pnl |-> RZero]

UpdatePosition(position, order, price) ==
    IF IsClosing(position, order)
    THEN IF RGe(order.size, position.size)
         THEN [pos |-> NoPosition, pnl |-> CalculatePnl(position, price)]
         ELSE [pos |-> [position EXCEPT !.size = RSub(position.size, order.size)],
               pnl |-> RMul(CalculatePnl(position, price),
                            RDiv(order.size, position.size))]
    ELSE LET total_size == RAdd(position.size, order.size)
         IN  [pos |-> [position EXCEPT
                         !.entry_price =
                             RDiv(RAdd(RMul(position.entry_price, position.size),
                                       RMul(price, order.size)),
                                  total_size),
                         !.size = total_size,
                         !.pyramiding_level = position.pyramiding_level + 1],
              pnl |-> RZero]

(***************************************************************************)
(* _execute_order                                                          *)
(***************************************************************************)
Commission(order, price) == RMul(RMul(order.size, price), CommissionRate)

RequiredMargin(order, price) ==
    RDiv(RMul(order.size, price), RInt(order.leverage))

\* variant: the check forgets the commission
InsufficientBalance_MarginOnly(order, price) ==
    RGt(RequiredMargin(order, price), balance)

InsufficientBalance(order, price) ==
    RGt(RAdd(RequiredMargin(order, price), Commission(order, price)), balance)

\* variant: the Trade is built without its commission (the field's default)
NewTrade_NoCommission(order, price) ==
    [trade_id |-> Len(trades) + 1,
     symbol |-> order.symbol,
     side |-> order.side,
     price |-> price,
     size |-> order.size,
     commission |-> RZero,
     pnl |-> RZero]

NewTrade(order, price) ==
    [trade_id |-> Len(trades) + 1,
     symbol |-> order.symbol,
     side |-> order.side,
     price |-> price,
     size |-> order.size,
     commission |-> Commission(order, price),
     pnl |-> RZero]

\* variant: every accepted order opens a position, also on a symbol that has one
Executed_AlwaysOpen(order, price) ==
    IF InsufficientBalance(order, price)
    THEN [balance |-> balance, positions |-> positions, trades |-> trades]
    ELSE [balance |-> RSub(balance, Commission(order, price)),
          positions |-> [positions EXCEPT ![order.symbol] = OpenPosition(order, price)],
          trades |-> Append(trades, NewTrade(order, price))]

\* variant: the required margin is taken out of the balance
Executed_ReservesMargin(order, price) ==
    IF InsufficientBalance(order, price)
    THEN [balance |-> balance, positions |-> positions, trades |-> trades]
    ELSE LET upd == IF HasPosition(order.symbol)
                    THEN UpdatePosition(positions[order.symbol], order, price)
                    ELSE [pos |-> OpenPosition(order, price), pnl |-> RZero]
         IN  [balance |-> RAdd(RSub(RSub(balance, Commission(order, price)),
                                    RequiredMargin(order, price)),
                               upd.pnl),
              positions |-> [positions EXCEPT ![order.symbol] = upd.pos],
              trades |-> Append(trades, NewTrade(order, price))]

\* balance, positions and trades as _execute_order leaves them
Executed(order, price) ==
    IF InsufficientBalance(order, price)
    THEN [balance |-> balance, positions |-> positions, trades |-> trades]
    ELSE LET upd == IF HasPosition(order.symbol)
                    THEN UpdatePosition(positions[order.symbol], order, price)
                    ELSE [pos |-> OpenPosition(order, price), pnl |-> RZero]
         IN  [balance |-> RAdd(RSub(balance, Commission(order, price)), upd.pnl),
              positions |-> [positions EXCEPT ![order.symbol] = upd.pos],
              trades |-> Append(trades, NewTrade(order, price))]

ExecuteOrder(order, price) ==
    LET after == Executed(order, price)
    IN  /\ balance' = after.balance
        /\ positions' = after.positions
        /\ trades' = after.trades

(***************************************************************************)
(* place_order                                                             *)
(***************************************************************************)
\* variant: every order is executed at once, whatever its type
PlaceOrder_ExecutesEveryType(order) ==
    /\ order_counter < MaxOrders
    /\ order_counter' = order_counter + 1
    /\ ExecuteOrder(order, GetCurrentPrice(order.symbol))
    /\ UNCHANGED orders
    /\ UNCHANGED candle_cache

PlaceOrder(order) ==
    /\ order_counter < MaxOrders
    /\ order_counter' = order_counter + 1
    /\ IF order.order_type = "market"
       THEN /\ ExecuteOrder(order, GetCurrentPrice(order.symbol))
            /\ UNCHANGED orders
       ELSE /\ orders' = (order_counter + 1 :> order)
                            @@ orders
            /\ UNCHANGED <<balance, positions, trades>>
    /\ UNCHANGED candle_cache

\* order_id = f"paper_{self.order_counter}": the text "paper_" and the number.
\* (self.orders is keyed by this id; the model keys it by the number alone.)
OrderId(n) == <<"paper_", n>>

\* variant: the id is built from the counter before its increment
PlaceOrderReturns_CounterBefore(order) == OrderId(order_counter)

\* the value place_order returns for the order: `return order_id`, on every path
PlaceOrderReturns(order) == OrderId(order_counter + 1)

(***************************************************************************)
(* cancel_order                                                            *)
(***************************************************************************)
\* variant: a cancel empties the pending map
CancelOrder_ClearsAll(order_id) ==
    /\ orders' = IF order_id \in DOMAIN orders THEN <<>> ELSE orders
    /\ UNCHANGED <<balance, positions, trades, order_counter, candle_cache>>

\* the value cancel_order returns
CancelOrderReturns(order_id) == order_id \in DOMAIN orders

CancelOrder(order_id) ==
    /\ orders' = IF order_id \in DOMAIN orders
                 THEN [i \in DOMAIN orders \ {order_id} |-> orders[i]]
                 ELSE orders
    /\ UNCHANGED <<balance, positions, trades, order_counter, candle_cache>>

(***************************************************************************)
(* update_positions (mark to market)                                       *)
(***************************************************************************)
UpdatePositions(s) ==
    /\ UNCHANGED <<balance, orders, trades, order_counter, candle_cache>>
    /\ positions' = IF HasPosition(s)
                    THEN [positions EXCEPT ![s] = UpdatePnl(@, GetCurrentPrice(s))]
                    ELSE positions

(***************************************************************************)
(* check_stop_loss_take_profit                                             *)
(***************************************************************************)
\* variant: a stop_loss of 0 is a level like any other
StopLossHit_ZeroIsLevel(position, current_price) ==
    \/ position.side = "long" /\ RLe(current_price, position.stop_loss)
    \/ position.side = "short" /\ RGe(current_price, position.stop_loss)

StopLossHit(position, current_price) ==
    /\ RGt(position.stop_loss, RZero)
    /\ \/ position.side = "long" /\ RLe(current_price, position.stop_loss)
       \/ position.side = "short" /\ RGe(current_price, position.stop_loss)

\* variant: the long take-profit test compares the wrong way round
TakeProfitHit_WrongSide(position, current_price) ==
    /\ RGt(position.take_profit, RZero)
    /\ \/ position.side = "long" /\ RLe(current_price, position.take_profit)
       \/ position.side = "short" /\ RLe(current_price, position.take_profit)

TakeProfitHit(position, current_price) ==
    /\ RGt(position.take_profit, RZero)
    /\ \/ position.side = "long" /\ RGe(current_price, position.take_profit)
       \/ position.side = "short" /\ RLe(current_price, position.take_profit)

ShouldClose(position, current_price) ==
    StopLossHit(position, current_price) \/ TakeProfitHit(position, current_price)

\* Order(symbol, side, MARKET, size=position.size): leverage keeps its default
CloseOrder(s, position) ==
    [symbol |-> s,
     side |-> IF position.side = "long" THEN "sell" ELSE "buy",
     order_type |-> "market",
     size |-> position.size,
     leverage |-> DefaultLeverage]

\* balance, positions and trades as check_stop_loss_take_profit leaves them
CheckedStops(s) ==
    IF HasPosition(s) /\ ShouldClose(positions[s], GetCurrentPrice(s))
    THEN Executed(CloseOrder(s, positions[s]), GetCurrentPrice(s))
    ELSE [balance |-> balance, positions |-> positions, trades |-> trades]

CheckStopLossTakeProfit(s) ==
    /\ UNCHANGED <<orders, order_counter, candle_cache>>
    /\ LET after == CheckedStops(s)
       IN  /\ balance' = after.balance
           /\ positions' = after.positions
           /\ trades' = after.trades

(***************************************************************************)
(* The caller of get_position holds the Position object itself and writes  *)
(* its stop_loss / take_profit fields.                                     *)
(***************************************************************************)
SetStops(s, stop_loss, take_profit) ==
    /\ HasPosition(s)
    /\ positions' = [positions EXCEPT ![s].stop_loss = stop_loss,
                                      ![s].take_profit = take_profit]
    /\ UNCHANGED <<balance, orders, trades, order_counter, candle_cache>>

(***************************************************************************)
(* get_statistics                                                          *)
(***************************************************************************)
RECURSIVE SumPnl(_)
SumPnl(ts) == IF ts = <<>> THEN RZero ELSE RAdd(ts[1].pnl, SumPnl(Tail(ts)))

RECURSIVE SumCommission(_)
SumCommission(ts) ==
    IF ts = <<>> THEN RZero ELSE RAdd(ts[1].commission, SumCommission(Tail(ts)))

WinningTrades(ts) == Cardinality({i \in 1..Len(ts) : RGt(ts[i].pnl, RZero)})

GetStatistics ==
    IF trades = <<>>
    THEN [total_trades |-> 0, total_pnl |-> RZero,
          total_commission |-> RZero, win_rate |-> RZero]
    ELSE [total_trades |-> Len(trades),
          total_pnl |-> SumPnl(trades),
          total_commission |-> SumCommission(trades),
          win_rate |-> RMul(Rat(WinningTrades(trades), Len(trades)), RInt(100)),
          current_balance |-> balance,
          total_return |->
              RMul(RDiv(RSub(balance, RInt(InitialBalance)), RInt(InitialBalance)),
                   RInt(100))]

(***************************************************************************)
(* get_balance                                                             *)
(***************************************************************************)
\* variant: the unrealized PnL of one position only
RECURSIVE TotalUnrealized_FirstOnly(_, _)
TotalUnrealized_FirstOnly(pos_of, open) ==
    IF open = {}
    THEN RZero
    ELSE LET s == CHOOSE x \in open : TRUE
         IN  pos_of[s].unrealized_pnl

\* sum(pos.unrealized_pnl for pos in self.positions.values())
RECURSIVE TotalUnrealized(_, _)
TotalUnrealized(pos_of, open) ==
    IF open = {}
    THEN RZero
    ELSE LET s == CHOOSE x \in open : TRUE
         IN  RAdd(pos_of[s].unrealized_pnl, TotalUnrealized(pos_of, open \ {s}))

GetBalance ==
    LET total_pnl ==
            TotalUnrealized(positions, {s \in DOMAIN positions : HasPosition(s)})
    IN  [total |-> RAdd(balance, total_pnl),
         available |-> balance,
         unrealized_pnl |-> total_pnl]

(***************************************************************************)
(* PsiFrequencyCalculator.detect_trend_swing, from the momentum score and  *)
(* the mean of the last trajectory points (window bars or more)            *)
(***************************************************************************)
DetectTrendSwing(psi_freq, avg_trajectory, threshold) ==
    IF RGt(psi_freq, threshold) /\ RGt(avg_trajectory, RZero)
    THEN "bullish"
    ELSE IF RGt(psi_freq, threshold) /\ RLt(avg_trajectory, RZero)
         THEN "bearish"
         ELSE "neutral"

(***************************************************************************)
(* PsiFreqScalperStrategy: configuration                                   *)
(***************************************************************************)
\* config.psi_freq.trajectory_window
TrajectoryWindow == 20
\* config.psi_freq.threshold = 0.7
Threshold == Rat(7, 10)
\* config.ml.prediction_threshold = 0.65
PredictionThreshold == Rat(13, 20)
\* config.trading.pyramiding_levels
PyramidingLevels == 3

(***************************************************************************)
(* PsiFreqScalperStrategy._create_hold_signal and the other Signals        *)
(***************************************************************************)
CreateHoldSignal(reason) ==
    [action |-> "hold", symbol |-> "", confidence |-> RZero, reason |-> reason]

(***************************************************************************)
(* PsiFreqScalperStrategy._generate_entry_signal                           *)
(* signal_action: 0 = hold, 1 = buy, 2 = sell                              *)
(***************************************************************************)
\* variant: the momentum check is skipped
GenerateEntrySignal_NoMomentum(symbol, trend, psi_freq, signal_action, signal_confidence) ==
    IF RLt(signal_confidence, PredictionThreshold)
    THEN CreateHoldSignal("ML confidence too low")
    ELSE IF trend = "bullish" /\ signal_action = 1
         THEN [action |-> "buy", symbol |-> symbol,
               confidence |-> signal_confidence, reason |-> "Bullish trend"]
         ELSE IF trend = "bearish" /\ signal_action = 2
              THEN [action |-> "sell", symbol |-> symbol,
                    confidence |-> signal_confidence, reason |-> "Bearish trend"]
              ELSE CreateHoldSignal("No strong signal")

\* variant: the momentum comparison is the wrong way round
GenerateEntrySignal_InvertedMomentum(symbol, trend, psi_freq, signal_action, signal_confidence) ==
    IF RGt(psi_freq, Threshold)
    THEN CreateHoldSignal("Psi-frequency too low")
    ELSE IF RLt(signal_confidence, PredictionThreshold)
         THEN CreateHoldSignal("ML confidence too low")
         ELSE IF trend = "bullish" /\ signal_action = 1
              THEN [action |-> "buy", symbol |-> symbol,
                    confidence |-> signal_confidence, reason |-> "Bullish trend"]
              ELSE IF trend = "bearish" /\ signal_action = 2
                   THEN [action |-> "sell", symbol |-> symbol,
                         confidence |-> signal_confidence,
                         reason |-> "Bearish trend"]
                   ELSE CreateHoldSignal("No strong signal")

GenerateEntrySignal(symbol, trend, psi_freq, signal_action, signal_confidence) ==
    IF RLt(psi_freq, Threshold)
    THEN CreateHoldSignal("Psi-frequency too low")
    ELSE IF RLt(signal_confidence, PredictionThreshold)
         THEN CreateHoldSignal("ML confidence too low")
         ELSE IF trend = "bullish" /\ signal_action = 1
              THEN [action |-> "buy", symbol |-> symbol,
                    confidence |-> signal_confidence, reason |-> "Bullish trend"]
              ELSE IF trend = "bearish" /\ signal_action = 2
                   THEN [action |-> "sell", symbol |-> symbol,
                         confidence |-> signal_confidence,
                         reason |-> "Bearish trend"]
                   ELSE CreateHoldSignal("No strong signal")

(***************************************************************************)
(* PsiFreqScalperStrategy._generate_exit_or_pyramid_signal                 *)
(***************************************************************************)
TrendMatchesPosition(position, trend) ==
    \/ position.side = "long" /\ trend = "bullish"
    \/ position.side = "short" /\ trend = "bearish"

\* (current_price - entry_price) / entry_price * 100, negated for a short
ProfitPct(position, current_price) ==
    LET profit_pct ==
            RMul(RDiv(RSub(current_price, position.entry_price), position.entry_price),
                 RInt(100))
    IN  IF position.side = "long" THEN profit_pct ELSE RNeg(profit_pct)

ShouldPyramid(position, current_price, signal_action) ==
    IF position.side = "long"
    THEN RGt(ProfitPct(position, current_price), RInt(1)) /\ signal_action = 1
    ELSE RGt(ProfitPct(position, current_price), RInt(1)) /\ signal_action = 2

CloseSignal(symbol) ==
    [action |-> "close", symbol |-> symbol, confidence |-> Rat(8, 10),
     reason |-> "Trend reversal detected"]

\* variant: a neutral trend does not close
GenerateExitOrPyramidSignal_NeutralHolds(symbol, current_price, position, trend, signal_action, signal_confidence) ==
    IF ~TrendMatchesPosition(position, trend) /\ trend # "neutral"
    THEN CloseSignal(symbol)
    ELSE IF position.pyramiding_level < PyramidingLevels
         THEN IF position.entry_price = RZero
              THEN [action |-> "raise", symbol |-> "", confidence |-> RZero,
                    reason |-> "ZeroDivisionError"]
              ELSE IF /\ ShouldPyramid(position, current_price, signal_action)
                      /\ RGt(signal_confidence, PredictionThreshold)
                   THEN [action |-> "pyramid", symbol |-> symbol,
                         confidence |-> signal_confidence,
                         reason |-> "Pyramiding opportunity"]
                   ELSE CreateHoldSignal("Holding position")
         ELSE CreateHoldSignal("Holding position")

\* The division by entry_price raises ZeroDivisionError for a position
\* entered at price 0: analyze then returns no Signal.
GenerateExitOrPyramidSignal(symbol, current_price, position, trend, signal_action, signal_confidence) ==
    IF ~TrendMatchesPosition(position, trend) \/ trend = "neutral"
    THEN CloseSignal(symbol)
    ELSE IF position.pyramiding_level < PyramidingLevels
         THEN IF position.entry_price = RZero
              THEN [action |-> "raise", symbol |-> "", confidence |-> RZero,
                    reason |-> "ZeroDivisionError"]
              ELSE IF /\ ShouldPyramid(position, current_price, signal_action)
                      /\ RGt(signal_confidence, PredictionThreshold)
                   THEN [action |-> "pyramid", symbol |-> symbol,
                         confidence |-> signal_confidence,
                         reason |-> "Pyramiding opportunity"]
                   ELSE CreateHoldSignal("Holding position")
         ELSE CreateHoldSignal("Holding position")

(***************************************************************************)
(* PsiFreqScalperStrategy.analyze.  Of the candles it uses their number    *)
(* and the last close; the momentum score, the trend label and the two     *)
(* models' outputs are what the calculator and the models return for them. *)
(***************************************************************************)
Analyzed(call) ==
    IF call.candles < TrajectoryWindow
    THEN CreateHoldSignal("Insufficient data")
    ELSE IF call.current_position = NoPosition
         THEN GenerateEntrySignal(call.symbol, call.trend, call.psi_freq,
                                  call.signal_action, call.signal_confidence)
         ELSE GenerateExitOrPyramidSignal(call.symbol, call.current_price,
                                          call.current_position, call.trend,
                                          call.signal_action, call.signal_confidence)

\* TradingEngine._trading_loop: `signal = self.strategy.analyze(candles,
\* current_position)`, the call and the Signal it returned ...
Analyze(call) ==
    /\ signal = NoSignal
    /\ signal' = [call |-> call, result |-> Analyzed(call)]
    /\ UNCHANGED <<trailed, bars>>

\* ... and the end of the iteration, where the local `signal` is dropped
EndIteration ==
    /\ signal # NoSignal
    /\ signal' = NoSignal
    /\ UNCHANGED <<trailed, bars>>

(***************************************************************************)
(* PsiFreqScalperStrategy.calculate_stop_loss and update_trailing_stop     *)
(***************************************************************************)
\* config.risk.stop_loss_percent / 100 = 1.5 / 100
StopLossPct == Rat(15, 1000)
\* config.risk.trailing_stop_percent / 100 = 0.5 / 100
TrailingPct == Rat(5, 1000)

CalculateStopLoss(entry_price, position_side) ==
    IF position_side = "long"
    THEN RMul(entry_price, RSub(RInt(1), StopLossPct))
    ELSE RMul(entry_price, RAdd(RInt(1), StopLossPct))

\* variant: the break-even test is left out
UpdateTrailingStop_NoBreakEven(position, current_price) ==
    IF position.side = "long"
    THEN LET potential_stop == RMul(current_price, RSub(RInt(1), TrailingPct))
         IN  IF RGt(potential_stop, position.stop_loss)
             THEN potential_stop
             ELSE position.stop_loss
    ELSE LET potential_stop == RMul(current_price, RAdd(RInt(1), TrailingPct))
         IN  IF RLt(potential_stop, position.stop_loss) \/ position.stop_loss = RZero
             THEN potential_stop
             ELSE position.stop_loss

UpdateTrailingStop(position, current_price) ==
    IF position.side = "long"
    THEN LET potential_stop == RMul(current_price, RSub(RInt(1), TrailingPct))
         IN  IF /\ RGt(potential_stop, position.stop_loss)
                /\ RGt(potential_stop, position.entry_price)
             THEN potential_stop
             ELSE position.stop_loss
    ELSE LET potential_stop == RMul(current_price, RAdd(RInt(1), TrailingPct))
         IN  IF /\ RLt(potential_stop, position.stop_loss) \/ position.stop_loss = RZero
                /\ RLt(potential_stop, position.entry_price)
             THEN potential_stop
             ELSE position.stop_loss

\* the strategy layer starts trailing a position at its entry price ...
StartTrailing(position) ==
    /\ trailed = NoPosition
    /\ trailed' = [position |-> position, current_price |-> position.entry_price]
    /\ UNCHANGED <<signal, bars>>

\* ... and on a price update stores what update_trailing_stop returns as the
\* position's stop
TrailStop(current_price) ==
    /\ trailed # NoPosition
    /\ trailed' =
           [position |->
                [trailed.position EXCEPT !.stop_loss =
                    UpdateTrailingStop(trailed.position, current_price)],
            current_price |-> current_price]
    /\ UNCHANGED <<signal, bars>>

(***************************************************************************)
(* PsiFrequencyCalculator.calculate_trajectory, over the closes            *)
(***************************************************************************)
\* PsiFrequencyCalculator(sensitivity=1.5)
Sensitivity == Rat(3, 2)

\* np.diff
Diff(xs) == [i \in 1..(Len(xs) - 1) |-> RSub(xs[i + 1], xs[i])]

\* variant: the leading zero of the acceleration is not added
CalculateTrajectory_NoPad(closes) ==
    IF Len(closes) < 2
    THEN <<RZero>>
    ELSE LET velocity == <<RZero>> \o Diff(closes)
             acceleration == Diff(velocity) \o <<RZero>>
         IN  [i \in 1..Len(velocity) |->
                 RAdd(velocity[i], RMul(acceleration[i], Sensitivity))]

CalculateTrajectory(closes) ==
    IF Len(closes) < 2
    THEN <<RZero>>
    ELSE LET velocity == <<RZero>> \o Diff(closes)
             acceleration == <<RZero>> \o Diff(velocity)
         IN  [i \in 1..Len(velocity) |->
                 RAdd(velocity[i], RMul(acceleration[i], Sensitivity))]

\* one more bar in the sequence handed to the calculator
AddBar(close) ==
    /\ Len(bars) < MaxBars
    /\ bars' = Append(bars, close)
    /\ UNCHANGED <<signal, trailed>>

(***************************************************************************)
(* PsiFrequencyCalculator.calculate_psi_frequency and its components, over *)
(* Candle records [open, high, low, close, volume, timeframe]              *)
(***************************************************************************)
\* PsiFrequencyCalculator(window=6): the look-back window of the calculator
Window == 6

\* xs[-n:] (n > 0)
LastN(xs, n) == IF Len(xs) <= n THEN xs ELSE SubSeq(xs, Len(xs) - n + 1, Len(xs))

ClosesOf(cs) == [i \in 1..Len(cs) |-> cs[i].close]

\* np.diff(prices) / prices[:-1], absolute values, their mean times sensitivity
CalculatePriceMomentum(cs) ==
    LET prices == ClosesOf(cs)
        returns == [i \in 1..(Len(cs) - 1) |->
                       FDiv(RSub(prices[i + 1], prices[i]), prices[i])]
        momentum == FMean([i \in 1..Len(returns) |-> FAbs(returns[i])])
    IN  FMul(momentum, Sensitivity)

CalculateVolumeMomentum(cs) ==
    LET total == FSum([i \in 1..Len(cs) |-> cs[i].volume])
        prices == ClosesOf(cs)
    IN  IF total = RZero
        THEN RZero
        ELSE FSum([i \in 1..(Len(cs) - 1) |->
                      RMul(FAbs(RSub(prices[i + 1], prices[i])),
                           RDiv(cs[i + 1].volume, total))])

CalculateWaveStrength(cs) ==
    LET wave_amplitude == [i \in 1..Len(cs) |-> RSub(cs[i].high, cs[i].low)]
        avg_amplitude == FMean(wave_amplitude)
        wave_std ==
            RSqrt(FMean([i \in 1..Len(cs) |->
                            RMul(RSub(wave_amplitude[i], avg_amplitude),
                                 RSub(wave_amplitude[i], avg_amplitude))]))
    IN  IF avg_amplitude = RZero
        THEN RZero
        ELSE FMul(FDiv(avg_amplitude, cs[Len(cs)].high),
                  RDiv(RInt(1), RAdd(RInt(1), RDiv(wave_std, avg_amplitude))))

\* variant: the result is not clipped
CalculatePsiFrequency_Unclipped(cs) ==
    IF Len(cs) < Window
    THEN RZero
    ELSE LET recent_candles == LastN(cs, Window)
         IN  FAdd(FAdd(FMul(CalculatePriceMomentum(recent_candles), Rat(4, 10)),
                       FMul(CalculateVolumeMomentum(recent_candles), Rat(3, 10))),
                  FMul(CalculateWaveStrength(recent_candles), Rat(3, 10)))

CalculatePsiFrequency(cs) ==
    IF Len(cs) < Window
    THEN RZero
    ELSE LET recent_candles == LastN(cs, Window)
             psi_freq ==
                 FAdd(FAdd(FMul(CalculatePriceMomentum(recent_candles), Rat(4, 10)),
                           FMul(CalculateVolumeMomentum(recent_candles), Rat(3, 10))),
                      FMul(CalculateWaveStrength(recent_candles), Rat(3, 10)))
         IN  Clip(psi_freq, RZero, RInt(1))

\* detect_trend_swing over a bar sequence
DetectTrendSwingOn(cs) ==
    IF Len(cs) < Window
    THEN "neutral"
    ELSE LET psi_freq == CalculatePsiFrequency(cs)
             trajectory == CalculateTrajectory(ClosesOf(LastN(cs, Window)))
             recent_trajectory == LastN(trajectory, 5)
             avg_trajectory == FMean(recent_trajectory)
         IN  DetectTrendSwing(psi_freq, avg_trajectory, Threshold)

(***************************************************************************)
(* TimeframeAggregator.aggregate_to_timeframe                              *)
(***************************************************************************)
RMaxOf(S) == CHOOSE x \in S : \A y \in S : RGe(x, y)

RMinOf(S) == CHOOSE x \in S : \A y \in S : RLe(x, y)

\* variant: the group closes where it opened
AggregateCandleGroup_CloseOfFirst(group, timeframe) ==
    [timestamp |-> group[1].timestamp,
     open      |-> group[1].open,
     high      |-> RMaxOf({group[i].high : i \in 1..Len(group)}),
     low       |-> RMinOf({group[i].low : i \in 1..Len(group)}),
     close     |-> group[1].close,
     volume    |-> FSum([i \in 1..Len(group) |-> group[i].volume]),
     timeframe |-> timeframe]

AggregateCandleGroup(group, timeframe) ==
    [timestamp |-> group[1].timestamp,
     open      |-> group[1].open,
     high      |-> RMaxOf({group[i].high : i \in 1..Len(group)}),
     low       |-> RMinOf({group[i].low : i \in 1..Len(group)}),
     close     |-> group[Len(group)].close,
     volume    |-> FSum([i \in 1..Len(group) |-> group[i].volume]),
     timeframe |-> timeframe]

\* for i in range(i, len(base_candles), ratio): the chunk that starts after
\* the first i bars is aggregated when it is complete
RECURSIVE AggregateChunks(_, _, _, _)
AggregateChunks(base_candles, i, ratio, target_timeframe) ==
    IF i >= Len(base_candles)
    THEN <<>>
    ELSE LET last == IF i + ratio <= Len(base_candles)
                     THEN i + ratio
                     ELSE Len(base_candles)
             chunk == SubSeq(base_candles, i + 1, last)
         IN  (IF Len(chunk) = ratio
              THEN <<AggregateCandleGroup(chunk, target_timeframe)>>
              ELSE <<>>)
             \o AggregateChunks(base_candles, i + ratio, ratio, target_timeframe)

\* variant: a ratio of at most 1 returns the bars tagged with the target
AggregateToTimeframe_Retags(base_candles, target_timeframe) ==
    IF base_candles = <<>>
    THEN <<>>
    ELSE LET base_timeframe == base_candles[1].timeframe
             ratio == target_timeframe \div base_timeframe
         IN  IF ratio <= 1
             THEN [i \in 1..Len(base_candles) |->
                      [base_candles[i] EXCEPT !.timeframe = target_timeframe]]
             ELSE AggregateChunks(base_candles, 0, ratio, target_timeframe)

AggregateToTimeframe(base_candles, target_timeframe) ==
    IF base_candles = <<>>
    THEN <<>>
    ELSE LET base_timeframe == base_candles[1].timeframe
             ratio == target_timeframe \div base_timeframe
         IN  IF ratio <= 1
             THEN base_candles
             ELSE AggregateChunks(base_candles, 0, ratio, target_timeframe)

(***************************************************************************)
(* CandleAnalyzer.calculate_candle_features and the Candle properties it   *)
(* reads                                                                   *)
(***************************************************************************)
RMax(a, b) == IF RGe(a, b) THEN a ELSE b

RMin(a, b) == IF RLe(a, b) THEN a ELSE b

Body(c) == FAbs(RSub(c.close, c.open))

UpperWick(c) == RSub(c.high, RMax(c.open, c.close))

LowerWick(c) == RSub(RMin(c.open, c.close), c.low)

TotalRange(c) == RSub(c.high, c.low)

IsBullish(c) == RGt(c.close, c.open)

BodyRatio(c) == IF TotalRange(c) = RZero THEN RZero ELSE RDiv(Body(c), TotalRange(c))

VolumeWeightedPrice(c) == RDiv(RAdd(RAdd(c.high, c.low), c.close), RInt(3))

\* float(True) = 1.0, float(False) = 0.0
BoolFloat(b) == IF b THEN RInt(1) ELSE RZero

CalculateCandleFeatures(candle) ==
    [body_size        |-> Body(candle),
     upper_wick       |-> UpperWick(candle),
     lower_wick       |-> LowerWick(candle),
     total_range      |-> TotalRange(candle),
     body_ratio       |-> BodyRatio(candle),
     is_bullish       |-> BoolFloat(IsBullish(candle)),
     volume           |-> candle.volume,
     vwap             |-> VolumeWeightedPrice(candle),
     high_low_ratio   |-> IF RGt(candle.low, RZero)
                          THEN RDiv(candle.high, candle.low)
                          ELSE RZero,
     upper_wick_ratio |-> IF RGt(TotalRange(candle), RZero)
                          THEN RDiv(UpperWick(candle), TotalRange(candle))
                          ELSE RZero,
     lower_wick_ratio |-> IF RGt(TotalRange(candle), RZero)
                          THEN RDiv(LowerWick(candle), TotalRange(candle))
                          ELSE RZero]

(***************************************************************************)
(* CandleAnalyzer.calculate_sequence_features.  A dict is a function from  *)
(* its keys; np.polyfit(x, y, 1) is the least-squares line through the     *)
(* points.                                                                 *)
(***************************************************************************)
EmptyDict == [k \in {} |-> RZero]

\* dict.get(key, default)
Get(dict, key, default) == IF key \in DOMAIN dict THEN dict[key] ELSE default

\* np.std
Std(xs) ==
    LET mean == FMean(xs)
    IN  RSqrt(FMean([i \in 1..Len(xs) |->
                        RMul(RSub(xs[i], mean), RSub(xs[i], mean))]))

\* np.polyfit(range(len(ys)), ys, 1): <<slope, intercept>>, len(ys) > 1
Polyfit(ys) ==
    LET n == Len(ys)
        x == [i \in 1..n |-> RInt(i - 1)]
        sx == FSum(x)
        sxx == FSum([i \in 1..n |-> RMul(x[i], x[i])])
        sy == FSum(ys)
        sxy == FSum([i \in 1..n |-> RMul(x[i], ys[i])])
        slope == RDiv(RSub(RMul(RInt(n), sxy), RMul(sx, sy)),
                      RSub(RMul(RInt(n), sxx), RMul(sx, sx)))
    IN  <<slope, RDiv(RSub(sy, RMul(slope, sx)), RInt(n))>>

\* np.sign
Sign(a) == IF a[1] > 0 THEN RInt(1) ELSE IF a[1] < 0 THEN RInt(-1) ELSE RZero

CalculateAtr(cs) ==
    IF Len(cs) < 2
    THEN RZero
    ELSE LET true_ranges ==
                 [j \in 1..(Len(cs) - 1) |->
                     LET high == cs[j + 1].high
                         low == cs[j + 1].low
                         prev_close == cs[j].close
                     IN  RMax(RSub(high, low),
                              RMax(FAbs(RSub(high, prev_close)),
                                   FAbs(RSub(low, prev_close))))]
             period == IF 14 <= Len(true_ranges) THEN 14 ELSE Len(true_ranges)
         IN  FMean(LastN(true_ranges, period))

CalculateTrendStrength(prices) ==
    IF Len(prices) < 2
    THEN RZero
    ELSE LET n == Len(prices)
             coeffs == Polyfit(prices)
             y_pred == [i \in 1..n |-> RAdd(RMul(coeffs[1], RInt(i - 1)), coeffs[2])]
             ss_res == FSum([i \in 1..n |->
                                RMul(RSub(prices[i], y_pred[i]),
                                     RSub(prices[i], y_pred[i]))])
             mean == FMean(prices)
             ss_tot == FSum([i \in 1..n |->
                                RMul(RSub(prices[i], mean), RSub(prices[i], mean))])
         IN  IF ss_tot = RZero
             THEN RZero
             ELSE RMul(RSub(RInt(1), RDiv(ss_res, ss_tot)), Sign(coeffs[1]))

\* sum(1 for i in range(1, len(xs)) if test(xs[i], xs[i-1]))
CountRising(xs) == Cardinality({i \in 2..Len(xs) : RGt(xs[i], xs[i - 1])})

CountFalling(xs) == Cardinality({i \in 2..Len(xs) : RLt(xs[i], xs[i - 1])})

CalculateSequenceFeatures(cs) ==
    IF cs = <<>>
    THEN EmptyDict
    ELSE LET n == Len(cs)
             closes == ClosesOf(cs)
             volumes == [i \in 1..n |-> cs[i].volume]
             highs == [i \in 1..n |-> cs[i].high]
             lows == [i \in 1..n |-> cs[i].low]
         IN  [price_mean       |-> FMean(closes),
              price_std        |-> Std(closes),
              price_range      |-> RSub(RMaxOf({closes[i] : i \in 1..n}),
                                        RMinOf({closes[i] : i \in 1..n})),
              price_change     |-> RSub(closes[n], closes[1]),
              price_change_pct |-> IF RGt(closes[1], RZero)
                                   THEN RMul(RDiv(RSub(closes[n], closes[1]), closes[1]),
                                             RInt(100))
                                   ELSE RZero,
              volume_mean      |-> FMean(volumes),
              volume_std       |-> Std(volumes),
              volume_trend     |-> IF n > 1 THEN Polyfit(volumes)[1] ELSE RZero,
              atr              |-> CalculateAtr(cs),
              volatility       |-> IF n > 1
                                   THEN Std([i \in 1..(n - 1) |->
                                                FDiv(RSub(closes[i + 1], closes[i]),
                                                     closes[i])])
                                   ELSE RZero,
              trend_strength   |-> CalculateTrendStrength(closes),
              higher_highs     |-> RInt(CountRising(highs)),
              lower_lows       |-> RInt(CountFalling(lows)),
              bullish_candles  |-> RInt(Cardinality({i \in 1..n : IsBullish(cs[i])})),
              bearish_candles  |-> RInt(Cardinality({i \in 1..n : ~IsBullish(cs[i])}))]

(***************************************************************************)
(* FeatureEngineering.extract_features; the conversion of the list to      *)
(* float32 keeps its length (rounding is not modelled)                     *)
(***************************************************************************)
\* the five values of one bar
CandleSlots(candle_feat) ==
    <<Get(candle_feat, "body_size", RZero),
      Get(candle_feat, "body_ratio", RZero),
      Get(candle_feat, "is_bullish", RZero),
      Get(candle_feat, "upper_wick_ratio", RZero),
      Get(candle_feat, "lower_wick_ratio", RZero)>>

RECURSIVE Flatten(_)
Flatten(xss) == IF xss = <<>> THEN <<>> ELSE xss[1] \o Flatten(Tail(xss))

\* while len(features) < 50: features.append(0.0)
Pad(features) ==
    features \o [i \in 1..(IF Len(features) < 50 THEN 50 - Len(features) ELSE 0) |-> RZero]

\* variant: no padding
ExtractFeatures_NoPad(candle_features, sequence_features, psi_frequency) ==
    LET recent == LastN(candle_features, 10)
        features == Flatten([i \in 1..Len(recent) |-> CandleSlots(recent[i])])
        count == IF Len(candle_features) > 1 THEN Len(candle_features) ELSE 1
    IN  features
        \o <<Get(sequence_features, "price_change_pct", RZero),
              Get(sequence_features, "volume_trend", RZero),
              Get(sequence_features, "atr", RZero),
              Get(sequence_features, "volatility", RZero),
              Get(sequence_features, "trend_strength", RZero),
              FDiv(Get(sequence_features, "bullish_candles", RZero), RInt(count))>>
        \o <<psi_frequency>>

ExtractFeatures(candle_features, sequence_features, psi_frequency) ==
    LET recent == LastN(candle_features, 10)
        features == Pad(Flatten([i \in 1..Len(recent) |-> CandleSlots(recent[i])]))
        count == IF Len(candle_features) > 1 THEN Len(candle_features) ELSE 1
    IN  features
        \o <<Get(sequence_features, "price_change_pct", RZero),
              Get(sequence_features, "volume_trend", RZero),
              Get(sequence_features, "atr", RZero),
              Get(sequence_features, "volatility", RZero),
              Get(sequence_features, "trend_strength", RZero),
              FDiv(Get(sequence_features, "bullish_candles", RZero), RInt(count))>>
        \o <<psi_frequency>>

\* the vector PsiFreqScalperStrategy.analyze assembles from the bars
AnalyzeFeatures(cs) ==
    LET psi_freq == CalculatePsiFrequency(cs)
        recent == LastN(cs, 10)
        candle_features == [i \in 1..Len(recent) |-> CalculateCandleFeatures(recent[i])]
        sequence_features == CalculateSequenceFeatures(LastN(cs, 50))
    IN  ExtractFeatures(candle_features, sequence_features, psi_freq)

\* one more bar in the sequence handed to the feature pipeline
AddFeatureCandle(candle) ==
    /\ Len(candles) < MaxFeatureCandles
    /\ candles' = Append(candles, [timestamp |-> Len(candles) + 1] @@ candle)
    /\ UNCHANGED <<signal, trailed, bars>>

\* a bar is appended to the sequence: TimeframeAggregator.add_candle on the
\* buffer of the bar's timeframe
AddCandle(candle) ==
    /\ Len(candles) < MaxCandles
    /\ IF candles = <<>> THEN TRUE ELSE candle.timeframe = candles[1].timeframe
    /\ candles' = Append(candles, [timestamp |-> Len(candles) + 1] @@ candle)
    /\ UNCHANGED <<signal, trailed, bars>>

(***************************************************************************)
(* TradingEngine (core/engine.py) on the execution simulator.  pc is where *)
(* run() stands: "init" before run() is called, "loop" at the test of the  *)
(* while loop, "mark", "stops", "analyze", "execute" and "log" inside      *)
(* _trading_loop, "except" in its except clause, "sleep" in time.sleep,    *)
(* "returned" after run() returned and "raised" after an error left        *)
(* run().  The buffers of the timeframe aggregator are written by the loop *)
(* and read nowhere in the engine; they are left out.                      *)
(***************************************************************************)
\* TradingEngine(config, symbol="BTC-USDT")
Symbol == "BTC-USDT"
\* config.trading.default_leverage
TradingDefaultLeverage == 5
\* config.trading.max_leverage
MaxLeverage == 10
\* config.trading.position_size_percent = 2.0
PositionSizePercent == RInt(2)
\* config.trading.min_position_size = 10.0
MinPositionSize == RInt(10)
\* config.risk.max_daily_loss_percent = 5.0
MaxDailyLossPercent == RInt(5)

NoOrder == [order_type |-> "none"]

\* in place of the order when computing its size raises: a float division
\* by 0.0 is an error in Python, not a number
ZeroDivisionError == [order_type |-> "ZeroDivisionError"]

\* PsiFreqScalperStrategy.calculate_position_size, for a price other than
\* 0.0 (`size = position_value / current_price` raises for 0.0)
CalculatePositionSize(available, leverage, current_price) ==
    LET position_value ==
            RMul(RMul(available, RDiv(PositionSizePercent, RInt(100))), RInt(leverage))
        size == RDiv(position_value, current_price)
    IN  IF RLt(position_value, MinPositionSize)
        THEN RZero
        ELSE size

\* the entry order of _execute_signal for a buy or a sell
EntryOrder(side, size) ==
    [symbol |-> Symbol, side |-> side, order_type |-> "limit",
     size |-> size, leverage |-> TradingDefaultLeverage]

\* the order _execute_signal places for the signal (NoOrder if it places
\* none, ZeroDivisionError if computing the size raises)
EngineOrder(sig, position) ==
    LET available_balance == GetBalance.available
        current_price == GetCurrentPrice(Symbol)
    IN  IF sig.action \in {"buy", "sell"}
        THEN LET size == CalculatePositionSize(available_balance,
                                               TradingDefaultLeverage, current_price)
             IN  IF current_price = RZero
                 THEN ZeroDivisionError
                 ELSE IF RGt(size, RZero)
                      THEN EntryOrder(sig.action, size)
                      ELSE NoOrder
        ELSE IF sig.action = "close" /\ position # NoPosition
        THEN [symbol |-> Symbol,
              side |-> IF position.side = "long" THEN "sell" ELSE "buy",
              order_type |-> "market",
              size |-> position.size,
              leverage |-> DefaultLeverage]
        ELSE IF sig.action = "pyramid" /\ position # NoPosition
        THEN LET leverage == IF position.leverage <= MaxLeverage
                             THEN position.leverage
                             ELSE MaxLeverage
                 size == CalculatePositionSize(available_balance, leverage,
                                               current_price)
             IN  IF current_price = RZero
                 THEN ZeroDivisionError
                 ELSE [symbol |-> Symbol,
                       side |-> IF position.side = "long" THEN "buy" ELSE "sell",
                       order_type |-> "limit",
                       size |-> RMul(size, Rat(1, 2)),
                       leverage |-> leverage]
        ELSE NoOrder

\* _log_status: abs(unrealized_pnl) / total divides by a total of 0
LogStatusRaises ==
    /\ RLt(GetBalance.unrealized_pnl, RZero)
    /\ GetBalance.total = RZero

\* _log_status: the loss limit is exceeded
LossLimitExceeded ==
    LET bal == GetBalance
    IN  /\ RLt(bal.unrealized_pnl, RZero)
        /\ bal.total # RZero
        /\ RGt(RMul(RDiv(FAbs(bal.unrealized_pnl), bal.total), RInt(100)),
               MaxDailyLossPercent)

\* the keys of the dict get_statistics returns
StatisticsKeys ==
    IF trades = <<>>
    THEN {"total_trades", "total_pnl", "total_commission", "win_rate"}
    ELSE {"total_trades", "total_pnl", "total_commission", "win_rate",
          "current_balance", "total_return"}

\* stop() logs stats['current_balance'] and stats['total_return'], which
\* get_statistics leaves out when there are no trades: KeyError
StopRaises == "current_balance" \notin StatisticsKeys

\* run(duration): is_running = True, start_time = time.time(), and on to
\* the loop
Run(d) ==
    /\ pc = "init"
    /\ is_running' = TRUE
    /\ duration' = d
    /\ elapsed' = 0
    /\ pc' = "loop"
    /\ UNCHANGED <<daily_trades, current_position>>
    /\ UNCHANGED exchange_vars
    /\ UNCHANGED analysis_vars

\* `if duration and (time.time() - start_time) > duration`
DurationExceeded ==
    /\ duration # <<>>
    /\ duration[1] # 0
    /\ elapsed > duration[1]

\* the while test holds and the duration check does not break: _trading_loop
\* is called
CycleStarts ==
    /\ pc = "loop"
    /\ is_running
    /\ ~DurationExceeded
    /\ order_counter < MaxOrders

\* the clock as it reads one unit later
Later == IF elapsed < MaxElapsed THEN elapsed + 1 ELSE elapsed

\* the locals of _trading_loop are gone when it returns
CycleEnds ==
    /\ pc' = "sleep"
    /\ signal' = NoSignal
    /\ current_position' = NoPosition

\* an error is raised inside _trading_loop: on to its except clause
CycleRaises ==
    /\ pc' = "except"
    /\ signal' = NoSignal
    /\ current_position' = NoPosition

\* variant: without candles the cycle goes on to the strategy
FetchCandles_AnalyzesAnyway ==
    /\ CycleStarts
    /\ current_position' = positions[Symbol]
    /\ pc' = IF positions[Symbol] # NoPosition THEN "mark" ELSE "analyze"
    /\ UNCHANGED signal
    /\ UNCHANGED <<is_running, daily_trades, trailed, bars, candles>>
    /\ UNCHANGED exchange_vars
    /\ UNCHANGED clock_vars

\* the loop is entered: get_candles, `if not candles: return`, get_position
FetchCandles ==
    /\ CycleStarts
    /\ IF candle_cache[Symbol] = <<>>
       THEN CycleEnds
       ELSE /\ current_position' = positions[Symbol]
            /\ pc' = IF positions[Symbol] # NoPosition THEN "mark" ELSE "analyze"
            /\ UNCHANGED signal
    /\ UNCHANGED <<is_running, daily_trades, trailed, bars, candles>>
    /\ UNCHANGED exchange_vars
    /\ UNCHANGED clock_vars

\* update_positions; current_position is the object the simulator marks
MarkToMarket ==
    /\ pc = "mark"
    /\ UpdatePositions(Symbol)
    /\ current_position' = positions'[Symbol]
    /\ pc' = "stops"
    /\ UNCHANGED <<is_running, daily_trades>>
    /\ UNCHANGED analysis_vars
    /\ UNCHANGED clock_vars

\* check_stop_loss_take_profit; after a close current_position is still the
\* object that was read
CheckStops ==
    /\ pc = "stops"
    /\ CheckStopLossTakeProfit(Symbol)
    /\ pc' = "analyze"
    /\ UNCHANGED <<is_running, daily_trades, current_position>>
    /\ UNCHANGED analysis_vars
    /\ UNCHANGED clock_vars

\* strategy.analyze(candles, current_position); an error raised in it ends
\* the cycle in the except clause of _trading_loop
AnalyzeMarket(call) ==
    /\ pc = "analyze"
    /\ call.current_position = current_position
    /\ call.current_price = GetCurrentPrice(Symbol)
    /\ IF Analyzed(call).action = "raise"
       THEN /\ CycleRaises
            /\ UNCHANGED <<trailed, bars>>
       ELSE /\ Analyze(call)
            /\ pc' = "execute"
            /\ UNCHANGED current_position
    /\ UNCHANGED <<is_running, daily_trades, candles>>
    /\ UNCHANGED exchange_vars
    /\ UNCHANGED clock_vars

\* _execute_signal
ExecuteSignal ==
    /\ pc = "execute"
    /\ LET order == EngineOrder(signal.result, current_position)
       IN  IF order = ZeroDivisionError
           THEN /\ CycleRaises
                /\ UNCHANGED daily_trades
                /\ UNCHANGED exchange_vars
           ELSE IF order = NoOrder
           THEN /\ pc' = "log"
                /\ UNCHANGED <<daily_trades, signal, current_position>>
                /\ UNCHANGED exchange_vars
           ELSE /\ PlaceOrder(order)
                /\ daily_trades' = daily_trades + 1
                /\ pc' = "log"
                /\ UNCHANGED <<signal, current_position>>
    /\ UNCHANGED <<is_running, trailed, bars, candles>>
    /\ UNCHANGED clock_vars

\* variant: the loss limit is logged only
LogStatus_NoStop ==
    /\ pc = "log"
    /\ IF LogStatusRaises THEN CycleRaises ELSE CycleEnds
    /\ UNCHANGED <<is_running, daily_trades, trailed, bars, candles>>
    /\ UNCHANGED exchange_vars
    /\ UNCHANGED clock_vars

\* _log_status, with stop() when the loss limit is exceeded; the cycle is over
LogStatus ==
    /\ pc = "log"
    /\ is_running' = IF LossLimitExceeded THEN FALSE ELSE is_running
    /\ IF LogStatusRaises \/ (LossLimitExceeded /\ StopRaises)
       THEN CycleRaises
       ELSE CycleEnds
    /\ UNCHANGED <<daily_trades, trailed, bars, candles>>
    /\ UNCHANGED exchange_vars
    /\ UNCHANGED clock_vars

\* the venue calls of a cycle, and where the cycle makes them
VenueCalls ==
    {"get_candles", "get_position", "get_balance", "get_current_price", "place_order"}

Calling(call) ==
    CASE call = "get_candles" -> CycleStarts
      [] call = "get_position" ->
             /\ CycleStarts
             /\ candle_cache[Symbol] # <<>>
      [] call \in {"get_balance", "get_current_price"} ->
             pc = "execute" /\ signal.result.action # "hold"
      [] call = "place_order" ->
             /\ pc = "execute"
             /\ EngineOrder(signal.result, current_position)
                    \notin {NoOrder, ZeroDivisionError}

\* a venue call raises instead of returning
VenueCallFails(call) ==
    /\ call \in VenueCalls
    /\ Calling(call)
    /\ CycleRaises
    /\ UNCHANGED <<is_running, daily_trades, trailed, bars, candles>>
    /\ UNCHANGED exchange_vars
    /\ UNCHANGED clock_vars

\* variant: the except clause stops the engine
ExceptClause_Stops ==
    /\ pc = "except"
    /\ pc' = "sleep"
    /\ is_running' = FALSE
    /\ UNCHANGED <<daily_trades, current_position>>
    /\ UNCHANGED exchange_vars
    /\ UNCHANGED analysis_vars
    /\ UNCHANGED clock_vars

\* `except Exception` in _trading_loop: the error is logged, the cycle is over
ExceptClause ==
    /\ pc = "except"
    /\ pc' = "sleep"
    /\ UNCHANGED <<is_running, daily_trades, current_position>>
    /\ UNCHANGED exchange_vars
    /\ UNCHANGED analysis_vars
    /\ UNCHANGED clock_vars

\* time passes while a cycle is under way
TimePasses ==
    /\ pc \in {"mark", "stops", "analyze", "execute", "log", "except"}
    /\ elapsed < MaxElapsed
    /\ elapsed' = elapsed + 1
    /\ UNCHANGED <<is_running, daily_trades, pc, current_position, duration>>
    /\ UNCHANGED exchange_vars
    /\ UNCHANGED analysis_vars

\* variant: the sleep takes no time
Sleep_NoTime ==
    /\ pc = "sleep"
    /\ pc' = "loop"
    /\ UNCHANGED <<is_running, daily_trades, current_position, duration, elapsed>>
    /\ UNCHANGED exchange_vars
    /\ UNCHANGED analysis_vars

\* time.sleep(min(timeframes) * 60) returns
Sleep ==
    /\ pc = "sleep"
    /\ pc' = "loop"
    /\ elapsed' = Later
    /\ UNCHANGED duration
    /\ UNCHANGED <<is_running, daily_trades, current_position>>
    /\ UNCHANGED exchange_vars
    /\ UNCHANGED analysis_vars

\* `finally: self.stop()`: run() returns, or stop() raises out of it
Finally ==
    /\ is_running' = FALSE
    /\ pc' = IF StopRaises THEN "raised" ELSE "returned"
    /\ UNCHANGED <<daily_trades, current_position>>
    /\ UNCHANGED clock_vars
    /\ UNCHANGED exchange_vars
    /\ UNCHANGED analysis_vars

\* the while test fails
LoopExit ==
    /\ pc = "loop"
    /\ ~is_running
    /\ Finally

\* the duration limit is reached: break
DurationReached ==
    /\ pc = "loop"
    /\ is_running
    /\ DurationExceeded
    /\ Finally

\* KeyboardInterrupt while the loop sleeps
Interrupt ==
    /\ pc = "sleep"
    /\ Finally

\* the environment acts on the simulator between two cycles
AtRest == pc = "sleep"

\* the execution simulator driven by its callers
Next ==
    \/ \E s \in Symbols, c \in Prices :
          AddCandles(s, c) /\ UNCHANGED analysis_vars /\ UNCHANGED engine_vars
    \/ \E o \in OrderInputs :
          PlaceOrder(o) /\ UNCHANGED analysis_vars /\ UNCHANGED engine_vars
    \/ \E i \in 1..MaxOrders :
          CancelOrder(i) /\ UNCHANGED analysis_vars /\ UNCHANGED engine_vars
    \/ \E s \in Symbols :
          UpdatePositions(s) /\ UNCHANGED analysis_vars /\ UNCHANGED engine_vars
    \/ \E s \in Symbols :
          CheckStopLossTakeProfit(s) /\ UNCHANGED analysis_vars /\ UNCHANGED engine_vars
    \/ \E st \in StopInputs :
          SetStops(st[1], st[2][1], st[2][2]) /\ UNCHANGED analysis_vars /\ UNCHANGED engine_vars

Spec == Init /\ [][Next]_vars

(***************************************************************************)
(* The simulator holding positions on two symbols: market orders of one    *)
(* size, bars and mark-to-market on each symbol                            *)
(***************************************************************************)
PortfolioSymbols == {"BTC-USDT", "ETH-USDT"}

PortfolioOrders ==
    [symbol : PortfolioSymbols, side : Sides, order_type : {"market"},
     size : {Rat(1, 10)}, leverage : {5}]

InitPortfolio ==
    /\ balance = RInt(InitialBalance)
    /\ positions = [s \in PortfolioSymbols |-> NoPosition]
    /\ orders = <<>>
    /\ trades = <<>>
    /\ order_counter = 0
    /\ candle_cache = [s \in PortfolioSymbols |-> <<>>]
    /\ signal = NoSignal
    /\ trailed = NoPosition
    /\ bars = <<>>
    /\ candles = <<>>
    /\ is_running = FALSE
    /\ daily_trades = 0
    /\ pc = "init"
    /\ current_position = NoPosition
    /\ duration = <<>>
    /\ elapsed = 0

NextPortfolio ==
    \/ \E s \in PortfolioSymbols, c \in Prices :
          AddCandles(s, c) /\ UNCHANGED analysis_vars /\ UNCHANGED engine_vars
    \/ \E o \in PortfolioOrders :
          PlaceOrder(o) /\ UNCHANGED analysis_vars /\ UNCHANGED engine_vars
    \/ \E s \in PortfolioSymbols :
          UpdatePositions(s) /\ UNCHANGED analysis_vars /\ UNCHANGED engine_vars

SpecPortfolio == InitPortfolio /\ [][NextPortfolio]_vars

(***************************************************************************)
(* The strategy called once per decision cycle                             *)
(***************************************************************************)
\* number of candles handed to analyze: one short of the window, the window
CandleCounts == {TrajectoryWindow - 1, TrajectoryWindow}
\* momentum scores below, at and above the configured threshold 0.7
PsiFreqs == {Rat(6, 10), Rat(7, 10), Rat(8, 10)}
\* mean of the last trajectory points: falling, flat, rising
AvgTrajectories == {RInt(-1), RZero, RInt(1)}
\* threshold the calculator was built with: the configured one, or a lower one
CalculatorThresholds == {Rat(5, 10), Threshold}
\* max class probability below, at and above the prediction threshold 0.65
Confidences == {Rat(6, 10), Rat(13, 20), Rat(7, 10)}
\* last close: -1.2%, -1%, 0, +1%, +1.2% against an entry at 50000
LastCloses == {RInt(49400), RInt(49500), RInt(50000), RInt(50500), RInt(50600)}
\* positions handed to analyze: entered at 50000, or at 0 (opened before any
\* bar was cached); below the configured number of pyramid levels, or at it
HeldPositions ==
    {[side |-> sd, entry_price |-> e, size |-> Rat(1, 10), leverage |-> 5,
      stop_loss |-> RZero, take_profit |-> RZero, pyramiding_level |-> lv,
      unrealized_pnl |-> RZero] :
        sd \in {"long", "short"}, e \in {RZero, RInt(50000)},
        lv \in {PyramidingLevels - 1, PyramidingLevels}}

AnalyzeCalls ==
    {[symbol |-> sym, candles |-> n, current_price |-> m[4],
      psi_freq |-> m[1], trend |-> DetectTrendSwing(m[1], m[2], m[3]),
      signal_action |-> ml[1], signal_confidence |-> ml[2],
      current_position |-> pos] :
        sym \in Symbols, n \in CandleCounts,
        m \in PsiFreqs \X AvgTrajectories \X CalculatorThresholds \X LastCloses,
        ml \in (0..2) \X Confidences,
        pos \in {NoPosition} \cup HeldPositions}

NextStrategy ==
    \/ \E call \in AnalyzeCalls :
          Analyze(call) /\ UNCHANGED exchange_vars /\ UNCHANGED candles /\ UNCHANGED engine_vars
    \/ EndIteration /\ UNCHANGED exchange_vars /\ UNCHANGED candles /\ UNCHANGED engine_vars

SpecStrategy == Init /\ [][NextStrategy]_vars

(***************************************************************************)
(* The strategy layer trailing the stop of one position                    *)
(***************************************************************************)
TrailEntries == {RInt(49750), RInt(50000), RInt(50250)}
\* 49000, 49250, ..., 51000
TrailPrices == {RInt(49000 + 250 * k) : k \in 0..8}
\* stop not set (as _open_position leaves it), or set by calculate_stop_loss
TrailedPositions ==
    UNION {{[side |-> sd, entry_price |-> e, size |-> Rat(1, 10), leverage |-> 5,
             stop_loss |-> st, take_profit |-> RZero, pyramiding_level |-> 0,
             unrealized_pnl |-> RZero] : st \in {RZero, CalculateStopLoss(e, sd)}} :
           sd \in {"long", "short"}, e \in TrailEntries}

NextTrailing ==
    \/ \E pos \in TrailedPositions :
          StartTrailing(pos) /\ UNCHANGED exchange_vars /\ UNCHANGED candles /\ UNCHANGED engine_vars
    \/ \E p \in TrailPrices :
          TrailStop(p) /\ UNCHANGED exchange_vars /\ UNCHANGED candles /\ UNCHANGED engine_vars

SpecTrailing == Init /\ [][NextTrailing]_vars

(***************************************************************************)
(* Bar sequences of every length up to MaxBars                             *)
(***************************************************************************)
BarCloses == {RInt(50000), RInt(50100), RInt(50300)}

NextTrajectory ==
    \E c \in BarCloses :
        AddBar(c) /\ UNCHANGED exchange_vars /\ UNCHANGED candles /\ UNCHANGED engine_vars

SpecTrajectory == Init /\ [][NextTrajectory]_vars

(***************************************************************************)
(* Candle sequences of every length up to MaxCandles, of 1-minute or of    *)
(* 5-minute bars: a rising bar, a flat bar without volume and a bar of     *)
(* zeros                                                                   *)
(***************************************************************************)
CandleInputs ==
    UNION {{[open |-> RInt(100), high |-> RInt(112), low |-> RInt(98),
             close |-> RInt(110), volume |-> RInt(20), timeframe |-> tf],
            [open |-> RInt(100), high |-> RInt(100), low |-> RInt(100),
             close |-> RInt(100), volume |-> RZero, timeframe |-> tf],
            [open |-> RZero, high |-> RZero, low |-> RZero,
             close |-> RZero, volume |-> RZero, timeframe |-> tf]} :
           tf \in {1, 5}}

NextCandles ==
    \E c \in CandleInputs : AddCandle(c) /\ UNCHANGED exchange_vars /\ UNCHANGED engine_vars

SpecCandles == Init /\ [][NextCandles]_vars

(***************************************************************************)
(* The feature pipeline over sequences of one-minute bars with positive    *)
(* prices: a rising bar and a flat bar without volume                      *)
(***************************************************************************)
FeatureCandleInputs ==
    {[open |-> RInt(10), high |-> RInt(12), low |-> RInt(9),
      close |-> RInt(11), volume |-> RInt(2), timeframe |-> 1],
     [open |-> RInt(10), high |-> RInt(10), low |-> RInt(10),
      close |-> RInt(10), volume |-> RZero, timeframe |-> 1]}

NextFeatures ==
    \E c \in FeatureCandleInputs : AddFeatureCandle(c) /\ UNCHANGED exchange_vars /\ UNCHANGED engine_vars

SpecFeatures == Init /\ [][NextFeatures]_vars

(***************************************************************************)
(* The engine's run loop.  Its environment feeds prices to the simulator,  *)
(* and a second user of the simulator opens a position with a market order *)
(* when there is none and sets stops on the open position (the engine      *)
(* itself places limit entries only).  The strategy is called with a full  *)
(* window of candles.                                                      *)
(***************************************************************************)
EnginePrices == {RInt(48000), RInt(50000)}

\* 0.1 at leverage 1, 0.4 at leverage 5
EngineOrders ==
    {[symbol |-> Symbol, side |-> sd, order_type |-> "market",
      size |-> sl[1], leverage |-> sl[2]] :
        sd \in Sides, sl \in {<<Rat(1, 10), 1>>, <<Rat(4, 10), 5>>}}

\* <<stop_loss, take_profit>>: a stop between the two prices, no target
EngineStops == {<<RInt(49000), RZero>>}

EngineCalls ==
    {[symbol |-> Symbol, candles |-> n, current_price |-> GetCurrentPrice(Symbol),
      psi_freq |-> m[1], trend |-> DetectTrendSwing(m[1], m[2], Threshold),
      signal_action |-> ml[1], signal_confidence |-> ml[2],
      current_position |-> current_position] :
        n \in {TrajectoryWindow},
        m \in {Rat(1, 2), Rat(9, 10)} \X {RInt(-1), RInt(1)},
        ml \in (0..2) \X {Rat(1, 2), Rat(9, 10)}}

EngineDurations == {<<>>, <<0>>, <<1>>}

NextEngine ==
    \/ \E d \in EngineDurations : Run(d)
    \/ TimePasses
    \/ FetchCandles
    \/ MarkToMarket
    \/ CheckStops
    \/ \E call \in EngineCalls : AnalyzeMarket(call)
    \/ ExecuteSignal
    \/ LogStatus
    \/ \E call \in VenueCalls : VenueCallFails(call)
    \/ ExceptClause
    \/ Sleep
    \/ LoopExit
    \/ DurationReached
    \/ Interrupt
    \/ \E c \in EnginePrices :
          AtRest /\ AddCandles(Symbol, c) /\ UNCHANGED analysis_vars /\ UNCHANGED engine_vars
    \/ \E o \in EngineOrders :
          /\ AtRest
          /\ ~HasPosition(Symbol)
          /\ PlaceOrder(o)
          /\ UNCHANGED analysis_vars
          /\ UNCHANGED engine_vars
    \/ \E st \in EngineStops :
          AtRest /\ SetStops(Symbol, st[1], st[2]) /\ UNCHANGED analysis_vars /\ UNCHANGED engine_vars

SpecEngine == Init /\ [][NextEngine]_vars

\* the run loop moves on: sleep ends, and the loop is left when its test fails
SpecEngineFair == SpecEngine /\ WF_vars(Sleep) /\ WF_vars(LoopExit)

(***************************************************************************)
(* The simulator with leveraged orders near the whole balance and bars     *)
(* far apart; every order is placed at a cached price                      *)
(***************************************************************************)
\* closes of the cached bars
MarginPrices == {RInt(30000), RInt(50000), RInt(70000)}

\* market orders of size 0.1 and 0.9 at leverage 5
MarginOrders ==
    [symbol : Symbols, side : Sides, order_type : {"market"},
     size : {Rat(1, 10), Rat(9, 10)}, leverage : {5}]

\* <<stop_loss, take_profit>>: one level between the bars, the other not set
MarginStops == {<<RInt(40000), RZero>>, <<RZero, RInt(60000)>>}

NextMargin ==
    \/ \E s \in Symbols, c \in MarginPrices :
          AddCandles(s, c) /\ UNCHANGED analysis_vars /\ UNCHANGED engine_vars
    \/ \E o \in MarginOrders :
          /\ GetCurrentPrice(o.symbol) # RZero
          /\ PlaceOrder(o)
          /\ UNCHANGED analysis_vars
          /\ UNCHANGED engine_vars
    \/ \E s \in Symbols :
          UpdatePositions(s) /\ UNCHANGED analysis_vars /\ UNCHANGED engine_vars
    \/ \E s \in Symbols :
          CheckStopLossTakeProfit(s) /\ UNCHANGED analysis_vars /\ UNCHANGED engine_vars
    \/ \E s \in Symbols, st \in MarginStops :
          SetStops(s, st[1], st[2]) /\ UNCHANGED analysis_vars /\ UNCHANGED engine_vars

SpecMargin == Init /\ [][NextMargin]_vars

(***************************************************************************)
(* Quantities the properties are stated with, written out from the         *)
(* specification's formulas rather than through the operators above        *)
(***************************************************************************)
Fee(size, price) == RMul(RMul(size, price), Rat(1, 1000))

Exceeds(o, price) ==
    RGt(RAdd(RDiv(RMul(o.size, price), RInt(o.leverage)), Fee(o.size, price)),
        balance)

MarketOrders == {o \in OrderInputs : o.order_type = "market"}

\* a market order handed to place_order passes the margin check
AcceptedMarket(o) ==
    /\ o \in MarketOrders
    /\ PlaceOrder(o)
    /\ ~Exceeds(o, GetCurrentPrice(o.symbol))

Opposes(pos, o) ==
    \/ pos.side = "long" /\ o.side = "sell"
    \/ pos.side = "short" /\ o.side = "buy"

\* side-signed (exit - entry) * size
Realized(pos, exit, size) ==
    IF pos.side = "long"
    THEN RMul(RSub(exit, pos.entry_price), size)
    ELSE RMul(RSub(pos.entry_price, exit), size)

Start == RInt(InitialBalance)

(***************************************************************************)
(* C1.  Round trip: after an accepted market buy of size s at price p the  *)
(* cash is B - s*p*0.001 and a long position (entry p, size s) is open;    *)
(* mark-to-market at q gives unrealized PnL (q-p)*s; after a market sell   *)
(* of size s at q the position is gone and the cash is                     *)
(* B - s*p*0.001 + (q-p)*s - s*q*0.001.  For B = 10000, s = 0.1,           *)
(* p = 50000, q = 51000: 9995, 100 and 10089.9.                            *)
(***************************************************************************)
RoundTripAfterBuy(bal, pos_of, ts) ==
    (Len(ts) = 1 /\ ts[1].side = "buy") =>
        LET t == ts[1]
            pos == pos_of[t.symbol]
        IN  /\ bal = RSub(Start, Fee(t.size, t.price))
            /\ pos # NoPosition
            /\ pos.side = "long"
            /\ pos.entry_price = t.price
            /\ pos.size = t.size
            /\ (t.size = Rat(1, 10) /\ t.price = RInt(50000)) => bal = RInt(9995)

RoundTripAfterSell(bal, pos_of, ts) ==
    (/\ Len(ts) = 2
     /\ ts[1].side = "buy"
     /\ ts[2].side = "sell"
     /\ ts[2].symbol = ts[1].symbol
     /\ ts[2].size = ts[1].size) =>
        LET b == ts[1]
            c == ts[2]
        IN  /\ pos_of[b.symbol] = NoPosition
            /\ bal =
                 RSub(RAdd(RSub(Start, Fee(b.size, b.price)),
                           RMul(RSub(c.price, b.price), b.size)),
                      Fee(b.size, c.price))
            /\ (b.size = Rat(1, 10) /\ b.price = RInt(50000) /\ c.price = RInt(51000))
                   => bal = Rat(100899, 10)

RoundTripMark ==
    \A s \in Symbols :
        (/\ Len(trades) = 1
         /\ trades[1].side = "buy"
         /\ trades[1].symbol = s
         /\ UpdatePositions(s)) =>
            LET t == trades[1]
                q == GetCurrentPrice(s)
            IN  /\ positions'[s].unrealized_pnl = RMul(RSub(q, t.price), t.size)
                /\ (t.size = Rat(1, 10) /\ t.price = RInt(50000) /\ q = RInt(51000))
                       => positions'[s].unrealized_pnl = RInt(100)

C1_RoundTrip ==
    [][/\ RoundTripAfterBuy(balance', positions', trades')
       /\ RoundTripAfterSell(balance', positions', trades')
       /\ RoundTripMark]_vars

\* the round trip 10000 -> buy 0.1 at 50000 -> sell 0.1 at 51000 has been made
C1_Witness ==
    /\ Len(trades) = 2
    /\ trades[1].side = "buy" /\ trades[1].size = Rat(1, 10)
    /\ trades[1].price = RInt(50000)
    /\ trades[2].side = "sell" /\ trades[2].size = Rat(1, 10)
    /\ trades[2].price = RInt(51000)
    /\ trades[2].symbol = trades[1].symbol
    /\ positions[trades[1].symbol] = NoPosition
    /\ balance = Rat(100899, 10)

(***************************************************************************)
(* C2.  An order whose margin size*price/leverage plus commission          *)
(* size*price*0.001 exceeds the cash is rejected with no state change:     *)
(* cash, every symbol's position, the pending orders and the trade log     *)
(* stay as they were, whether the order comes from place_order or is the   *)
(* closing order of check_stops.                                           *)
(***************************************************************************)
C2_RejectedNoChange ==
    [][/\ \A o \in MarketOrders :
              (PlaceOrder(o) /\ Exceeds(o, GetCurrentPrice(o.symbol)))
                  => UNCHANGED <<balance, positions, orders, trades>>
       /\ \A s \in Symbols :
              (/\ HasPosition(s)
               /\ CheckStopLossTakeProfit(s)
               /\ Exceeds([size |-> positions[s].size, leverage |-> 1],
                          GetCurrentPrice(s)))
                  => UNCHANGED <<balance, positions, orders, trades>>]_vars

\* a market order was placed at a real price and left no trace but its id
C2_Witness ==
    /\ order_counter = 1
    /\ trades = <<>>
    /\ DOMAIN orders = {}
    /\ \E s \in Symbols : GetCurrentPrice(s) = RInt(50000)
    /\ balance = Start
    /\ \A s \in Symbols : ~HasPosition(s)

(***************************************************************************)
(* C3.  At most one open position per symbol: whatever is called, a        *)
(* symbol's open position is afterwards either gone or the same position   *)
(* (same side, same opening leverage) closed in part (smaller size, same   *)
(* entry and level), added to (larger size, level + 1) or left at its      *)
(* size, entry and level; it is never replaced by a second position.       *)
(***************************************************************************)
C3_OnePositionPerSymbol ==
    [][\A s \in Symbols :
          HasPosition(s) =>
              LET old == positions[s]
                  new == positions'[s]
              IN  \/ new = NoPosition
                  \/ /\ new.side = old.side
                     /\ new.leverage = old.leverage
                     /\ \/ /\ RLt(new.size, old.size)
                           /\ new.entry_price = old.entry_price
                           /\ new.pyramiding_level = old.pyramiding_level
                        \/ /\ RGt(new.size, old.size)
                           /\ new.pyramiding_level = old.pyramiding_level + 1
                        \/ /\ new.size = old.size
                           /\ new.entry_price = old.entry_price
                           /\ new.pyramiding_level = old.pyramiding_level]_vars

\* a second order on the symbol of an open position has been executed
C3_Witness ==
    \E s \in Symbols :
        /\ HasPosition(s)
        /\ Cardinality({i \in 1..Len(trades) : trades[i].symbol = s}) = 2

(***************************************************************************)
(* C4.  An accepted opposite-side order on an open position: with          *)
(* order.size = position.size the position is removed; with                *)
(* order.size < position.size the position stays with its size reduced by  *)
(* order.size and nothing else changed (entry price, pyramid level), and   *)
(* the cash is credited with the PnL of the closed size only,              *)
(* side-signed (exit - entry) * order.size, net of the commission.         *)
(***************************************************************************)
C4_FullAndPartialClose ==
    [][\A o \in MarketOrders :
          (/\ AcceptedMarket(o)
           /\ HasPosition(o.symbol)
           /\ Opposes(positions[o.symbol], o)) =>
              LET pos == positions[o.symbol]
                  exit == GetCurrentPrice(o.symbol)
              IN  /\ (o.size = pos.size) => positions'[o.symbol] = NoPosition
                  /\ RLt(o.size, pos.size) =>
                        /\ positions'[o.symbol] =
                               [pos EXCEPT !.size = RSub(pos.size, o.size)]
                        /\ balance' =
                               RAdd(RSub(balance, Fee(o.size, exit)),
                                    Realized(pos, exit, o.size))]_vars

\* a position of 0.2 has been closed in part (0.1) at a price other than its entry
C4_Witness ==
    \E s \in Symbols :
        /\ HasPosition(s)
        /\ Len(trades) = 2
        /\ trades[1].size = Rat(2, 10)
        /\ trades[2].size = Rat(1, 10)
        /\ trades[2].side # trades[1].side
        /\ trades[2].price # trades[1].price
        /\ trades[1].price # RZero
        /\ positions[s].size = Rat(1, 10)
        /\ positions[s].entry_price = trades[1].price

(***************************************************************************)
(* C5.  An accepted same-side order of size addSize at price p on an open  *)
(* position (oldEntry, oldSize) makes the entry price                      *)
(* (oldEntry*oldSize + p*addSize)/(oldSize+addSize), the size              *)
(* oldSize+addSize and the pyramid level one higher, and changes the cash  *)
(* by the commission only; after any sequence of adds the entry price is   *)
(* the size-weighted average of all fill prices.                           *)
(***************************************************************************)
RECURSIVE FillSize(_)
FillSize(ts) == IF ts = <<>> THEN RZero ELSE RAdd(ts[1].size, FillSize(Tail(ts)))

RECURSIVE FillCost(_)
FillCost(ts) ==
    IF ts = <<>> THEN RZero
    ELSE RAdd(RMul(ts[1].price, ts[1].size), FillCost(Tail(ts)))

\* the log holds one opening fill followed by adds only
OnlyAdds(ts) ==
    /\ Len(ts) >= 1
    /\ \A i \in 1..Len(ts) : ts[i].side = ts[1].side /\ ts[i].symbol = ts[1].symbol

WeightedAverageEntry(pos_of, ts) ==
    OnlyAdds(ts) =>
        LET pos == pos_of[ts[1].symbol]
        IN  /\ pos # NoPosition
            /\ pos.size = FillSize(ts)
            /\ pos.pyramiding_level = Len(ts) - 1
            /\ RMul(pos.entry_price, FillSize(ts)) = FillCost(ts)

AppendOnly ==
    /\ Len(trades') >= Len(trades)
    /\ Len(trades') <= Len(trades) + 1
    /\ SubSeq(trades', 1, Len(trades)) = trades

\* the record the execution of `o` at `price` appends
Recorded(o, price) ==
    /\ Len(trades') = Len(trades) + 1
    /\ LET t == trades'[Len(trades')]
       IN  /\ t.symbol = o.symbol
           /\ t.side = o.side
           /\ t.size = o.size
           /\ t.price = price
           /\ t.commission = Fee(o.size, price)

\* the cash credited by the execution of `o` at `price`, commission apart
Credited(o, price) ==
    IF HasPosition(o.symbol) /\ Opposes(positions[o.symbol], o)
    THEN Realized(positions[o.symbol], price,
                  IF RLt(o.size, positions[o.symbol].size)
                  THEN o.size ELSE positions[o.symbol].size)
    ELSE RZero

C6_CommissionAndTradeLog ==
    [][/\ AppendOnly
       /\ \A o \in MarketOrders :
              AcceptedMarket(o) =>
                  LET p == GetCurrentPrice(o.symbol)
                  IN  /\ Recorded(o, p)
                      /\ balance' = RAdd(RSub(balance, Fee(o.size, p)), Credited(o, p))
                      /\ ~(HasPosition(o.symbol) /\ Opposes(positions[o.symbol], o))
                            => /\ trades'[Len(trades')].pnl = RZero
                               /\ balance' = RSub(balance, Fee(o.size, p))
       /\ \A s \in Symbols :
              (/\ HasPosition(s)
               /\ CheckStopLossTakeProfit(s)
               /\ trades' # trades) =>
                  LET o == [symbol |-> s,
                            side |-> IF positions[s].side = "long"
                                     THEN "sell" ELSE "buy",
                            size |-> positions[s].size]
                      p == GetCurrentPrice(s)
                  IN  /\ Recorded(o, p)
                      /\ balance' = RAdd(RSub(balance, Fee(o.size, p)), Credited(o, p))]_vars

\* an open (0.1 at 50000) and a full close (at 51000) have each been charged
\* and recorded
C6_Witness ==
    /\ Len(trades) = 2
    /\ trades[1].commission = RInt(5)
    /\ trades[2].commission = Rat(51, 10)
    /\ \A s \in Symbols : ~HasPosition(s)

(***************************************************************************)
(* C7.  stats() reports the sum of realized PnL over all trades and the    *)
(* win rate (trades with positive realized PnL)/(trade count)*100: after   *)
(* a position is opened and then closed at a profit P > 0 the reported     *)
(* total realized PnL is P and the win rate is greater than 0.             *)
(***************************************************************************)
\* the log is one opening fill and its full close, at a profit
OpenedThenClosedAtProfit ==
    /\ Len(trades) = 2
    /\ trades[2].symbol = trades[1].symbol
    /\ trades[2].side # trades[1].side
    /\ trades[2].size = trades[1].size
    /\ positions[trades[1].symbol] = NoPosition
    /\ RGt(trades[1].price, RZero)
    /\ RGt(IF trades[1].side = "buy"
           THEN RSub(trades[2].price, trades[1].price)
           ELSE RSub(trades[1].price, trades[2].price), RZero)

RoundTripProfit ==
    RMul(IF trades[1].side = "buy"
         THEN RSub(trades[2].price, trades[1].price)
         ELSE RSub(trades[1].price, trades[2].price), trades[1].size)

C7_StatsReportRealizedPnl ==
    OpenedThenClosedAtProfit =>
        /\ GetStatistics.total_pnl = RoundTripProfit
        /\ RGt(GetStatistics.win_rate, RZero)

(***************************************************************************)
(* C8.  For an open position with stop_loss and take_profit set, a         *)
(* check_stops call at a price that crosses the stop (long: price <=       *)
(* stop_loss; short: price >= stop_loss) or the target (long: price >=     *)
(* take_profit; short: price <= take_profit) leaves the symbol without an  *)
(* open position, whatever the cash and the position's leverage.           *)
(***************************************************************************)
Crosses(pos, price) ==
    \/ pos.side = "long" /\ (RLe(price, pos.stop_loss) \/ RGe(price, pos.take_profit))
    \/ pos.side = "short" /\ (RGe(price, pos.stop_loss) \/ RLe(price, pos.take_profit))

C8_StopsAlwaysClose ==
    \A s \in Symbols :
        (/\ HasPosition(s)
         /\ RGt(positions[s].stop_loss, RZero)
         /\ RGt(positions[s].take_profit, RZero)
         /\ Crosses(positions[s], GetCurrentPrice(s)))
            => CheckedStops(s).positions[s] = NoPosition

(***************************************************************************)
(* C9.  For a long position with stop_loss < entry < take_profit,          *)
(* check_stops at a price strictly between stop_loss and take_profit       *)
(* closes nothing: position, cash and trade log are unchanged; likewise    *)
(* for a short position with take_profit < entry < stop_loss.              *)
(***************************************************************************)
InsideBracket(pos, price) ==
    \/ /\ pos.side = "long"
       /\ RLt(pos.stop_loss, pos.entry_price) /\ RLt(pos.entry_price, pos.take_profit)
       /\ RLt(pos.stop_loss, price) /\ RLt(price, pos.take_profit)
    \/ /\ pos.side = "short"
       /\ RLt(pos.take_profit, pos.entry_price) /\ RLt(pos.entry_price, pos.stop_loss)
       /\ RLt(pos.take_profit, price) /\ RLt(price, pos.stop_loss)

C9_NoCloseInsideBracket ==
    [][\A s \in Symbols :
          (/\ HasPosition(s)
           /\ CheckStopLossTakeProfit(s)
           /\ InsideBracket(positions[s], GetCurrentPrice(s)))
              => UNCHANGED <<positions, balance, trades>>]_vars

\* a long opened at 50000 carries the bracket 49500 / 50500 while the price is
\* 50000, with the cash to execute a close
C9_Witness ==
    \E s \in Symbols :
        /\ HasPosition(s)
        /\ positions[s].side = "long"
        /\ positions[s].entry_price = RInt(50000)
        /\ positions[s].size = Rat(1, 10)
        /\ positions[s].stop_loss = RInt(49500)
        /\ positions[s].take_profit = RInt(50500)
        /\ GetCurrentPrice(s) = RInt(50000)

(***************************************************************************)
(* C10.  One check_stops call executes at most one close: when the         *)
(* stop-loss condition and the take-profit condition both hold at the      *)
(* current price, exactly one closing order is executed, one trade is      *)
(* appended and one commission is charged.                                 *)
(***************************************************************************)
BothHit(pos, price) ==
    /\ RGt(pos.stop_loss, RZero)
    /\ RGt(pos.take_profit, RZero)
    /\ \/ pos.side = "long" /\ RLe(price, pos.stop_loss) /\ RGe(price, pos.take_profit)
       \/ pos.side = "short" /\ RGe(price, pos.stop_loss) /\ RLe(price, pos.take_profit)

OneCloseExecuted(s) ==
    LET pos == positions[s]
        p == GetCurrentPrice(s)
        after == CheckedStops(s)
    IN  /\ Len(after.trades) = Len(trades) + 1
        /\ after.trades[Len(after.trades)].commission = Fee(pos.size, p)
        /\ after.balance =
               RAdd(RSub(balance, Fee(pos.size, p)), Realized(pos, p, pos.size))
        /\ after.positions[s] = NoPosition

C10_ExactlyOneClose ==
    \A s \in Symbols :
        (HasPosition(s) /\ BothHit(positions[s], GetCurrentPrice(s)))
            => OneCloseExecuted(s)

\* the part of C10 that does not depend on the close being accepted: no
\* check_stops call appends more than one trade
C10_AtMostOneClose ==
    [][\A s \in Symbols :
          CheckStopLossTakeProfit(s) => Len(trades') <= Len(trades) + 1]_vars

(***************************************************************************)
(* C11.  mark_to_market at price p sets the open position's unrealized PnL *)
(* to (p - entry)*size for a long and (entry - p)*size for a short, and    *)
(* changes nothing else: 0 at p = entry, entry*0.02*size at p = entry*1.02 *)
(* for a long (the negative of it for a short).  The new value does not    *)
(* depend on the stored one: a later call overwrites, it does not          *)
(* accumulate.                                                             *)
(***************************************************************************)
Marked(pos, p) ==
    IF pos.side = "long"
    THEN RMul(RSub(p, pos.entry_price), pos.size)
    ELSE RMul(RSub(pos.entry_price, p), pos.size)

\* entry * 0.02 * size
TwoPercent(pos) == RMul(RMul(pos.entry_price, Rat(2, 100)), pos.size)

MarkExamples(pos, pnl, p) ==
    /\ p = pos.entry_price => pnl = RZero
    /\ p = RMul(pos.entry_price, Rat(102, 100)) =>
           pnl = IF pos.side = "long" THEN TwoPercent(pos) ELSE RNeg(TwoPercent(pos))

C11_MarkToMarket ==
    [][\A s \in Symbols :
          (UpdatePositions(s) /\ HasPosition(s)) =>
              LET p == GetCurrentPrice(s)
              IN  /\ positions'[s] =
                         [positions[s] EXCEPT !.unrealized_pnl = Marked(positions[s], p)]
                  /\ MarkExamples(positions[s], positions'[s].unrealized_pnl, p)
                  /\ UNCHANGED <<balance, trades, orders>>]_vars

\* a short of 0.1 opened at 50000 has been marked at 51000 = entry*1.02:
\* its unrealized PnL is -100 = -(entry*0.02*size)
C11_Witness ==
    \E s \in Symbols :
        /\ HasPosition(s)
        /\ positions[s].side = "short"
        /\ positions[s].entry_price = RInt(50000)
        /\ positions[s].size = Rat(1, 10)
        /\ GetCurrentPrice(s) = RInt(51000)
        /\ positions[s].unrealized_pnl = RInt(-100)

(***************************************************************************)
(* C12.  In every reachable state get_balance returns available = cash and *)
(* total = cash + the sum of the unrealized PnL of all open positions; in  *)
(* particular, once every position is fully closed, total = available.     *)
(***************************************************************************)
Unrealized(s) ==
    IF positions[s] = NoPosition THEN RZero ELSE positions[s].unrealized_pnl

C12_BalanceView ==
    /\ GetBalance.available = balance
    /\ GetBalance.total =
           RAdd(balance, RAdd(Unrealized("BTC-USDT"), Unrealized("ETH-USDT")))
    /\ (\A s \in PortfolioSymbols : positions[s] = NoPosition)
           => GetBalance.total = GetBalance.available

\* two positions are open, each marked with a gain of 100
C12_Witness ==
    /\ \A s \in PortfolioSymbols :
           positions[s] # NoPosition /\ positions[s].unrealized_pnl = RInt(100)
    /\ GetBalance.total = RAdd(balance, RInt(200))

(***************************************************************************)
(* C13.  A limit order given to place_order is stored in the pending map   *)
(* under its new id and changes neither cash, positions nor the trade log; *)
(* new bars, mark_to_market and check_stops leave the pending map alone,   *)
(* so it never fills, and an order leaves the map only through             *)
(* cancel_order, which touches nothing else.  A market order is executed   *)
(* immediately and is never stored in the pending map.                     *)
(***************************************************************************)
LimitOrders == {o \in OrderInputs : o.order_type = "limit"}

StoredPending(o) ==
    LET id == order_counter + 1
    IN  /\ id \notin DOMAIN orders
        /\ DOMAIN orders' = DOMAIN orders \cup {id}
        /\ orders'[id] = o
        /\ \A i \in DOMAIN orders : orders'[i] = orders[i]
        /\ UNCHANGED <<balance, positions, trades>>

LeavesOnlyByCancel ==
    /\ \A i \in DOMAIN orders \ DOMAIN orders' :
           CancelOrder(i) /\ DOMAIN orders' = DOMAIN orders \ {i}
    /\ \A i \in DOMAIN orders \cap DOMAIN orders' : orders'[i] = orders[i]

PricesLeavePending ==
    \A s \in Symbols :
        /\ (\E c \in Prices : AddCandles(s, c)) =>
               UNCHANGED <<orders, balance, positions, trades>>
        /\ UpdatePositions(s) => UNCHANGED <<orders, balance, trades>>
        /\ CheckStopLossTakeProfit(s) => UNCHANGED orders

C13_LimitOrdersStayPending ==
    [][/\ \A o \in LimitOrders : PlaceOrder(o) => StoredPending(o)
       /\ \A o \in MarketOrders : PlaceOrder(o) => UNCHANGED orders
       /\ LeavesOnlyByCancel
       /\ PricesLeavePending
       /\ \A i \in DOMAIN orders' : orders'[i].order_type = "limit"]_vars

\* a limit buy is still pending under id 1 after a bar at 50000 arrived and a
\* market order was executed at that price
C13_Witness ==
    /\ 1 \in DOMAIN orders
    /\ orders[1].order_type = "limit"
    /\ orders[1].side = "buy"
    /\ Len(trades) = 1
    /\ trades[1].price = RInt(50000)
    /\ order_counter = 2

(***************************************************************************)
(* C14.  place_order returns the empty string when the order fails: a      *)
(* market order that is rejected for insufficient margin yields an empty   *)
(* order id, and a non-empty id is returned only for an order that was     *)
(* executed or stored pending.                                             *)
(***************************************************************************)
\* the string of no characters
EmptyString == <<>>

C14_EmptyIdOnRejection ==
    \A o \in MarketOrders :
        LET rejected == Exceeds(o, GetCurrentPrice(o.symbol))
        IN  /\ rejected => PlaceOrderReturns(o) = EmptyString
            /\ PlaceOrderReturns(o) # EmptyString => ~rejected

(***************************************************************************)
(* C15.  With no open position and at least `window` bars the strategy     *)
(* emits buy exactly when momentum_score >= threshold, confidence >=       *)
(* prediction threshold, the trend label is bullish and the predicted      *)
(* class is buy; sell exactly when the same holds with trend bearish and   *)
(* predicted class sell; hold for every other combination.  The hold       *)
(* reasons are checked in the order: insufficient data, momentum below     *)
(* threshold, confidence below threshold, no strong signal.                *)
(***************************************************************************)
StrongEnough(call) ==
    RGe(call.psi_freq, Rat(7, 10)) /\ RGe(call.signal_confidence, Rat(65, 100))

EntryExpected(call) ==
    IF StrongEnough(call) /\ call.trend = "bullish" /\ call.signal_action = 1
    THEN "buy"
    ELSE IF StrongEnough(call) /\ call.trend = "bearish" /\ call.signal_action = 2
         THEN "sell"
         ELSE "hold"

HoldReasonExpected(call) ==
    IF call.candles < 20
    THEN "Insufficient data"
    ELSE IF RLt(call.psi_freq, Rat(7, 10))
         THEN "Psi-frequency too low"
         ELSE IF RLt(call.signal_confidence, Rat(65, 100))
              THEN "ML confidence too low"
              ELSE "No strong signal"

Flat == signal # NoSignal /\ signal.call.current_position = NoPosition

C15_EntryDecision ==
    Flat =>
        /\ signal.call.candles >= 20 =>
               signal.result.action = EntryExpected(signal.call)
        /\ signal.result.action = "hold" =>
               signal.result.reason = HoldReasonExpected(signal.call)

\* a buy emitted with the momentum score and the confidence exactly at their
\* thresholds
C15_Witness ==
    /\ Flat
    /\ signal.call.candles = 20
    /\ signal.call.psi_freq = Rat(7, 10)
    /\ signal.call.signal_confidence = Rat(65, 100)
    /\ signal.result.action = "buy"

(***************************************************************************)
(* C16.  Whenever momentum_score is below the configured threshold, the    *)
(* strategy's action is hold for every trend label, predicted class,       *)
(* confidence and position state, with the momentum-below-threshold        *)
(* reason, or the insufficient-data reason when fewer than `window` bars   *)
(* were supplied.                                                          *)
(***************************************************************************)
BelowThreshold == signal # NoSignal /\ RLt(signal.call.psi_freq, Rat(7, 10))

HoldsForLowMomentum ==
    /\ signal.result.action = "hold"
    /\ signal.result.reason =
           IF signal.call.candles < 20
           THEN "Insufficient data"
           ELSE "Psi-frequency too low"

\* the action the claim promises, for the calls that return a Signal (the
\* reason apart)
C16_HoldBelowThreshold ==
    (BelowThreshold /\ signal.result.action # "raise")
        => signal.result.action = "hold"

\* C16 as amended: the same, for calls without an open position (with a
\* position the momentum score is not consulted)
C16_HoldBelowThresholdWhenFlat ==
    (BelowThreshold /\ signal.call.current_position = NoPosition)
        => HoldsForLowMomentum

\* a flat call with momentum 0.6, a bullish trend, predicted class buy and
\* confidence 0.7 on 20 candles was answered with hold
C16_Witness ==
    /\ BelowThreshold
    /\ signal.call.current_position = NoPosition
    /\ signal.call.candles = 20
    /\ signal.call.trend = "bullish"
    /\ signal.call.signal_action = 1
    /\ signal.call.signal_confidence = Rat(7, 10)
    /\ signal.result.action = "hold"

(***************************************************************************)
(* C17.  With an open position and at least `window` bars the strategy     *)
(* emits close whenever the trend label is neutral or does not match the   *)
(* position side (long needs bullish, short needs bearish), regardless of  *)
(* predicted class, confidence, profit and pyramid level; it never emits   *)
(* close when the trend matches the side.                                  *)
(***************************************************************************)
InPosition ==
    /\ signal # NoSignal
    /\ signal.call.current_position # NoPosition
    /\ signal.call.candles >= 20

TrendAgrees(call) ==
    \/ call.current_position.side = "long" /\ call.trend = "bullish"
    \/ call.current_position.side = "short" /\ call.trend = "bearish"

C17_CloseOnTrendMismatch ==
    InPosition => (signal.result.action = "close" <=> ~TrendAgrees(signal.call))

\* a long at its last pyramid level, 1.2% in profit, predicted class buy with
\* confidence 0.7, is closed because the trend label is neutral
C17_Witness ==
    /\ InPosition
    /\ signal.call.current_position.side = "long"
    /\ signal.call.current_position.entry_price = RInt(50000)
    /\ signal.call.current_position.pyramiding_level = 2
    /\ signal.call.current_price = RInt(50600)
    /\ signal.call.signal_action = 1
    /\ signal.call.signal_confidence = Rat(7, 10)
    /\ signal.call.trend = "neutral"
    /\ signal.result.action = "close"

(***************************************************************************)
(* C18.  With an open position whose side matches the trend the strategy   *)
(* emits pyramid exactly when pyramid_level < configured max levels, the   *)
(* side-signed profit percentage of the last close against the entry price *)
(* is greater than 1%, the predicted class agrees with the side (buy for   *)
(* long, sell for short) and confidence >= prediction threshold (equality  *)
(* included); otherwise it emits hold.                                     *)
(***************************************************************************)
\* side-signed (close - entry) / entry * 100
GainPct(call) ==
    LET pos == call.current_position
        up == RMul(RDiv(RSub(call.current_price, pos.entry_price), pos.entry_price),
                   RInt(100))
    IN  IF pos.side = "long" THEN up ELSE RNeg(up)

ClassAgrees(call) ==
    \/ call.current_position.side = "long" /\ call.signal_action = 1
    \/ call.current_position.side = "short" /\ call.signal_action = 2

PyramidGates(call) ==
    /\ call.current_position.pyramiding_level < 3
    /\ RGt(GainPct(call), RInt(1))
    /\ ClassAgrees(call)

\* positions entered at a price above 0, where the profit percentage exists
WithTrend ==
    /\ InPosition
    /\ TrendAgrees(signal.call)
    /\ RGt(signal.call.current_position.entry_price, RZero)

C18_PyramidDecision ==
    WithTrend =>
        signal.result.action =
            IF /\ PyramidGates(signal.call)
               /\ RGe(signal.call.signal_confidence, Rat(65, 100))
            THEN "pyramid"
            ELSE "hold"

\* what the code does instead: the confidence has to exceed the threshold
C18_PyramidDecisionStrict ==
    WithTrend =>
        signal.result.action =
            IF /\ PyramidGates(signal.call)
               /\ RGt(signal.call.signal_confidence, Rat(65, 100))
            THEN "pyramid"
            ELSE "hold"

(***************************************************************************)
(* C19.  The trailing-stop update only ever moves the stop in the          *)
(* profit-protecting direction and never onto the loss side of the entry:  *)
(* for a long the returned stop is >= the current stop and, when it        *)
(* differs from the current stop, is > entry price; for a short the        *)
(* returned stop is <= the current stop and, when it differs, is < entry   *)
(* price.  Over any sequence of price updates in which the returned value  *)
(* is stored as the new stop, a long's stop is non-decreasing and a        *)
(* short's stop is non-increasing.                                         *)
(***************************************************************************)
LongStopMoves(pos, new) ==
    /\ RGe(new, pos.stop_loss)
    /\ new # pos.stop_loss => RGt(new, pos.entry_price)

ShortStopMoves(pos, new) ==
    /\ RLe(new, pos.stop_loss)
    /\ new # pos.stop_loss => RLt(new, pos.entry_price)

C19_TrailingStopOneWay ==
    [][\A p \in TrailPrices :
          TrailStop(p) =>
              IF trailed.position.side = "long"
              THEN LongStopMoves(trailed.position, trailed'.position.stop_loss)
              ELSE ShortStopMoves(trailed.position, trailed'.position.stop_loss)]_vars

\* C19 as amended: a short's stop that is not set yet (0) is set to its first
\* value, below the entry; from then on it only moves down
ShortStopMovesOnceSet(pos, new) ==
    /\ pos.stop_loss # RZero => RLe(new, pos.stop_loss)
    /\ new # pos.stop_loss => RLt(new, pos.entry_price) /\ RGt(new, RZero)

C19_TrailingStopOneWayOnceSet ==
    [][\A p \in TrailPrices :
          TrailStop(p) =>
              IF trailed.position.side = "long"
              THEN LongStopMoves(trailed.position, trailed'.position.stop_loss)
              ELSE ShortStopMovesOnceSet(trailed.position,
                                         trailed'.position.stop_loss)]_vars

\* a short entered at 50000 whose stop was trailed down to 49000 * 1.005 =
\* 49245 keeps that stop after the price went back up to 50000
C19_Witness ==
    /\ trailed # NoPosition
    /\ trailed.position.side = "short"
    /\ trailed.position.entry_price = RInt(50000)
    /\ trailed.position.stop_loss = RInt(49245)
    /\ trailed.current_price = RInt(50000)

(***************************************************************************)
(* C20.  For every bar sequence, including the empty one and a single bar, *)
(* trajectory(bars) has length equal to the length of bars; element i is   *)
(* velocity[i] + sensitivity*acceleration[i] with velocity the first       *)
(* difference of closes and acceleration the first difference of velocity, *)
(* each padded with a leading zero.                                        *)
(***************************************************************************)
Velocity(i) == IF i = 1 THEN RZero ELSE RSub(bars[i], bars[i - 1])

Acceleration(i) == IF i = 1 THEN RZero ELSE RSub(Velocity(i), Velocity(i - 1))

ElementsAsDefined ==
    \A i \in 1..Len(bars) :
        CalculateTrajectory(bars)[i] =
            RAdd(Velocity(i), RMul(Rat(15, 10), Acceleration(i)))

C20_TrajectoryLength ==
    /\ Len(CalculateTrajectory(bars)) = Len(bars)
    /\ ElementsAsDefined

\* the claim without the empty sequence, which the code does satisfy
C20_TrajectoryLengthNonEmpty ==
    Len(bars) >= 1 => C20_TrajectoryLength

(***************************************************************************)
(* C21.  For any bar sequence momentum_score returns a value in [0,1]: 0.0 *)
(* when fewer than `window` bars are supplied, and otherwise the weighted  *)
(* sum 0.4*price + 0.3*volume + 0.3*wave clamped to [0,1], including for   *)
(* degenerate windows (all-equal closes, zero total volume, zero           *)
(* amplitude, a zero close).                                               *)
(***************************************************************************)
InUnitInterval(x) == x[2] > 0 /\ 0 <= x[1] /\ x[1] <= x[2]

WeightedSum(cs) ==
    FAdd(FAdd(FMul(Rat(4, 10), CalculatePriceMomentum(cs)),
              FMul(Rat(3, 10), CalculateVolumeMomentum(cs))),
         FMul(Rat(3, 10), CalculateWaveStrength(cs)))

Clamped(x) ==
    IF x = PosInf THEN RInt(1)
    ELSE IF x = NegInf THEN RZero
    ELSE IF x[1] * 1 > x[2] THEN RInt(1)
    ELSE IF x[1] < 0 THEN RZero
    ELSE x

ScoreAsDefined(cs) ==
    IF Len(cs) < Window
    THEN CalculatePsiFrequency(cs) = RZero
    ELSE CalculatePsiFrequency(cs) = Clamped(WeightedSum(LastN(cs, Window)))

C21_MomentumScoreInUnit ==
    /\ InUnitInterval(CalculatePsiFrequency(candles))
    /\ ScoreAsDefined(candles)

\* the windows the code does handle: no two successive closes of zero among
\* the last `window` bars
NoZeroAfterZero(cs) ==
    \A i \in 1..(Len(cs) - 1) :
        (i > Len(cs) - Window /\ cs[i].close = RZero) => cs[i + 1].close # RZero

C21_MomentumScoreInUnitElsewhere ==
    NoZeroAfterZero(candles) => C21_MomentumScoreInUnit

(***************************************************************************)
(* C22.  detect_trend returns exactly one of bullish, bearish, neutral:    *)
(* neutral when fewer than `window` bars are supplied; otherwise bullish   *)
(* iff momentum_score > threshold and the mean of the last 5 trajectory    *)
(* points of the last `window` bars is > 0, bearish iff momentum_score >   *)
(* threshold and that mean is < 0, neutral in all other cases (score <=    *)
(* threshold or mean exactly 0).                                           *)
(***************************************************************************)
TrendOf(cs) == DetectTrendSwingOn(cs)

ScoreOf(cs) == CalculatePsiFrequency(cs)

\* the mean of the last 5 trajectory points of the last `window` bars
RecentMean(cs) ==
    LET closes == ClosesOf(LastN(cs, Window))
        n == Len(closes)
        v(i) == IF i = 1 THEN RZero ELSE RSub(closes[i], closes[i - 1])
        a(i) == IF i = 1 THEN RZero ELSE RSub(v(i), v(i - 1))
        point(i) == RAdd(v(i), RMul(Sensitivity, a(i)))
    IN  RMul(Rat(1, 5),
             RAdd(point(n - 4),
                  RAdd(point(n - 3),
                       RAdd(point(n - 2), RAdd(point(n - 1), point(n))))))

\* score > threshold and score <= threshold as comparisons of numbers
ScoreAbove(cs) ==
    ScoreOf(cs)[2] > 0 /\ ScoreOf(cs)[1] * Threshold[2] > Threshold[1] * ScoreOf(cs)[2]

ScoreNotAbove(cs) ==
    ScoreOf(cs)[2] > 0 /\ ScoreOf(cs)[1] * Threshold[2] <= Threshold[1] * ScoreOf(cs)[2]

TrendTable(cs) ==
    /\ TrendOf(cs) \in {"bullish", "bearish", "neutral"}
    /\ Len(cs) < Window => TrendOf(cs) = "neutral"
    /\ Len(cs) >= Window =>
          /\ TrendOf(cs) = "bullish" <=>
                 (ScoreAbove(cs) /\ RGt(RecentMean(cs), RZero))
          /\ TrendOf(cs) = "bearish" <=>
                 (ScoreAbove(cs) /\ RLt(RecentMean(cs), RZero))

OtherCases(cs) ==
    (Len(cs) >= Window /\ TrendOf(cs) = "neutral") =>
        (ScoreNotAbove(cs) \/ RecentMean(cs)[1] = 0)

C22_TrendLabel == TrendTable(candles) /\ OtherCases(candles)

\* the decision table alone holds for every bar sequence ...
C22_TrendLabelTable == TrendTable(candles)

\* ... and the other cases are as claimed wherever the score is a number
C22_TrendLabelOfNumber ==
    IsFinite(ScoreOf(candles)) => C22_TrendLabel

C22_Bullish == ~(Len(candles) >= Window /\ TrendOf(candles) = "bullish")
C22_Bearish == ~(Len(candles) >= Window /\ TrendOf(candles) = "bearish")
C22_NeutralAboveThreshold ==
    ~(Len(candles) >= Window /\ ScoreAbove(candles) /\ TrendOf(candles) = "neutral")

(***************************************************************************)
(* C23.  Aggregating N base bars to a target timeframe with ratio R > 1    *)
(* yields exactly floor(N/R) bars, all tagged with the target timeframe;   *)
(* output k has open = open of base bar k*R, close = close of base bar     *)
(* k*R+R-1, high = max, low = min and volume = sum over base bars          *)
(* k*R .. k*R+R-1; the trailing N mod R bars contribute to no output bar.  *)
(* Bars and outputs are counted from 0 in the claim and from 1 here; R is  *)
(* the whole number of base bars per target bar.                           *)
(***************************************************************************)
TargetTimeframes == {1, 2, 3, 5, 7, 10, 15}

BaseOf(cs) == cs[1].timeframe

RECURSIVE VolumeOver(_, _, _)
VolumeOver(cs, first, last) ==
    IF first > last THEN RZero
    ELSE RAdd(cs[first].volume, VolumeOver(cs, first + 1, last))

OutputAsClaimed(cs, out, k, R) ==
    LET first == k * R + 1
        last == k * R + R
    IN  /\ out[k + 1].open = cs[first].open
        /\ out[k + 1].close = cs[last].close
        /\ \A i \in first..last : RGe(out[k + 1].high, cs[i].high)
        /\ \E i \in first..last : out[k + 1].high = cs[i].high
        /\ \A i \in first..last : RLe(out[k + 1].low, cs[i].low)
        /\ \E i \in first..last : out[k + 1].low = cs[i].low
        /\ out[k + 1].volume = VolumeOver(cs, first, last)

AggregatedAsClaimed(cs, target) ==
    LET R == target \div BaseOf(cs)
        N == Len(cs)
        out == AggregateToTimeframe(cs, target)
    IN  R > 1 =>
          /\ Len(out) = N \div R
          /\ \A k \in 0..(Len(out) - 1) :
                /\ out[k + 1].timeframe = target
                /\ OutputAsClaimed(cs, out, k, R)

C23_AggregationShape ==
    candles # <<>> =>
        \A target \in TargetTimeframes : AggregatedAsClaimed(candles, target)

\* seven one-minute bars: three to a bar gives two bars and drops the last
C23_Witness ==
    /\ Len(candles) = 7
    /\ BaseOf(candles) = 1
    /\ Len(AggregateToTimeframe(candles, 3)) = 2
    /\ candles[1].close # candles[3].close

(***************************************************************************)
(* C24.  When the target timeframe divided by the base timeframe is <= 1   *)
(* (target equal to or smaller than the base), aggregate returns the base  *)
(* sequence unchanged (same bars, same order, same timeframe tags); an     *)
(* empty base sequence yields an empty result.                             *)
(***************************************************************************)
C24_NoDownwardAggregation ==
    \A target \in TargetTimeframes :
        /\ candles = <<>> => AggregateToTimeframe(candles, target) = <<>>
        /\ (candles # <<>> /\ target <= BaseOf(candles)) =>
               AggregateToTimeframe(candles, target) = candles

\* five-minute bars asked for at one minute
C24_Witness ==
    /\ Len(candles) >= 2
    /\ BaseOf(candles) = 5
    /\ AggregateToTimeframe(candles, 1) = candles

(***************************************************************************)
(* C25.  The assembled feature vector has the same fixed length (10*5      *)
(* per-bar features + 6 sequence features + 1 momentum score = 57) for     *)
(* every number of available bars from 0 upward; with fewer than 10 bars   *)
(* the missing per-bar slots are zero, and with more than 10 only the last *)
(* 10 bars are used.                                                       *)
(***************************************************************************)
\* the vector of the bars cs when the per-bar features of all of them are
\* handed over
VectorOf(cs) ==
    ExtractFeatures([i \in 1..Len(cs) |-> CalculateCandleFeatures(cs[i])],
                    CalculateSequenceFeatures(cs),
                    CalculatePsiFrequency(cs))

\* slot j (1..5) of the k-th per-bar group of a vector
Slot(v, k, j) == v[5 * (k - 1) + j]

BarSlots(c) ==
    LET range == RSub(c.high, c.low)
        top == IF RGt(c.open, c.close) THEN c.open ELSE c.close
        bottom == IF RLt(c.open, c.close) THEN c.open ELSE c.close
        body == IF RGt(c.close, c.open) THEN RSub(c.close, c.open) ELSE RSub(c.open, c.close)
    IN  <<body,
          IF range = RZero THEN RZero ELSE RDiv(body, range),
          IF RGt(c.close, c.open) THEN RInt(1) ELSE RZero,
          IF range = RZero THEN RZero ELSE RDiv(RSub(c.high, top), range),
          IF range = RZero THEN RZero ELSE RDiv(RSub(bottom, c.low), range)>>

PerBarPart(v, cs) ==
    LET used == IF Len(cs) < 10 THEN Len(cs) ELSE 10
    IN  /\ \A k \in 1..used : \A j \in 1..5 :
              Slot(v, k, j) = BarSlots(cs[Len(cs) - used + k])[j]
        /\ \A i \in (5 * used + 1)..50 : v[i] = RZero

C25_FeatureVectorLength ==
    LET whole == VectorOf(candles)
        assembled == AnalyzeFeatures(candles)
    IN  /\ Len(whole) = 57
        /\ Len(assembled) = 57
        /\ PerBarPart(whole, candles)
        /\ PerBarPart(assembled, candles)
        /\ whole[57] = CalculatePsiFrequency(candles)

\* eleven bars, the first of which differs from the eleventh, so that the
\* first group of slots is seen to come from the second bar
C25_Witness ==
    /\ Len(candles) = 11
    /\ candles[1].close # candles[2].close
    /\ Slot(VectorOf(candles), 1, 1) = BarSlots(candles[2])[1]
    /\ Slot(VectorOf(candles), 1, 1) # BarSlots(candles[1])[1]

\* three bars: slots 16..50 are padding
C25_WitnessFewBars ==
    /\ Len(candles) = 3
    /\ Len(VectorOf(candles)) = 57
    /\ VectorOf(candles)[15] # RZero
    /\ VectorOf(candles)[16] = RZero

(***************************************************************************)
(* C26.  When the strategy emits buy (or sell) while Flat and the engine   *)
(* executes that action against the execution simulator with sufficient    *)
(* cash, the simulator's position state is updated: the next decision      *)
(* cycle reads back an open long (short) position for the symbol, so the   *)
(* strategy moves from Flat to InPosition.                                 *)
(***************************************************************************)
\* the engine has executed the signal of this cycle
Executed_(action) == pc = "log" /\ signal.result.action = action

\* the entry the engine has placed, and cash that covers its margin and fee
EntryPlaced ==
    /\ (Executed_("buy") \/ Executed_("sell"))
    /\ current_position = NoPosition
    /\ EngineOrder(signal.result, current_position) \notin {NoOrder, ZeroDivisionError}

CashSuffices ==
    LET o == EngineOrder(signal.result, current_position)
        price == GetCurrentPrice(Symbol)
        needed == RAdd(RDiv(RMul(o.size, price), RInt(o.leverage)),
                       RMul(RMul(o.size, price), Rat(1, 1000)))
    IN  RSub(balance, needed)[1] >= 0

\* what the next cycle's get_position returns is what the simulator holds now
C26_EntryOpensPosition ==
    (EntryPlaced /\ CashSuffices) =>
        /\ positions[Symbol] # NoPosition
        /\ positions[Symbol].side =
               (IF signal.result.action = "buy" THEN "long" ELSE "short")

\* the entry is stored as a pending order instead
C26_EntryStaysPending ==
    (EntryPlaced /\ CashSuffices) =>
        /\ positions[Symbol] = NoPosition
        /\ \E i \in DOMAIN orders : orders[i].order_type = "limit"

(***************************************************************************)
(* C27.  Flat is re-entered after any close: at the end of every decision  *)
(* cycle in which the engine executes a close action against the           *)
(* simulator, the symbol has no open position, including the cycle in      *)
(* which check_stops has already closed the position before the strategy's *)
(* close action (computed from the position read at the start of the       *)
(* cycle) is executed, and including positions opened with leverage > 1.   *)
(***************************************************************************)
ClosePlaced == Executed_("close") /\ current_position # NoPosition

C27_FlatAfterClose == ClosePlaced => positions[Symbol] = NoPosition

\* the close of a position that is still open, with cash for the margin of
\* the closing order at leverage 1, does leave the symbol flat
C27_FlatAfterAcceptedClose ==
    [][(/\ ExecuteSignal
        /\ signal.result.action = "close"
        /\ current_position # NoPosition
        /\ positions[Symbol] # NoPosition
        /\ RSub(balance,
                RAdd(RMul(current_position.size, GetCurrentPrice(Symbol)),
                     RMul(RMul(current_position.size, GetCurrentPrice(Symbol)),
                          Rat(1, 1000))))[1] >= 0)
          => positions'[Symbol] = NoPosition]_vars

\* the two ways a close leaves a position: the close order reopens the
\* other side after the stop has closed; the close order is rejected
C27_NoReversalAfterStop ==
    ~(/\ ClosePlaced
      /\ positions[Symbol] # NoPosition
      /\ positions[Symbol].side # current_position.side)

C27_NoRejectedClose ==
    ~(/\ ClosePlaced
      /\ positions[Symbol] # NoPosition
      /\ positions[Symbol].side = current_position.side)

(***************************************************************************)
(* C28.  A failure of any venue call inside a decision cycle (get_candles, *)
(* get_position, get_balance, get_current_price, place_order raising an    *)
(* error) degrades that cycle to a no-op and does not stop the run: the    *)
(* loop stays running and goes on to the next cycle after the sleep.       *)
(***************************************************************************)
\* nothing of the simulator or of the engine's counters changes
NothingDone ==
    UNCHANGED <<balance, positions, orders, trades, order_counter, daily_trades>>

NoBars == candle_cache[Symbol] = <<>>

C29_EmptyBarsHold ==
    [][(FetchCandles /\ NoBars) =>
          /\ pc' = "sleep"
          /\ signal' = NoSignal
          /\ UNCHANGED <<balance, positions, orders, trades, order_counter>>
          /\ UNCHANGED <<daily_trades, is_running>>]_vars

\* after a cycle without bars, with a position that a mark would have touched
C29_Witness ==
    /\ pc = "sleep"
    /\ is_running
    /\ NoBars
    /\ positions[Symbol] # NoPosition

(***************************************************************************)
(* C30.  When the loss percentage computed at the end of a cycle exceeds   *)
(* the configured max daily loss percent, the run performs an orderly      *)
(* stop: is_running becomes false, no further decision cycle is started,   *)
(* and run() returns normally rather than by an escaping error.            *)
(***************************************************************************)
\* abs(unrealized) / total * 100 > 5, for a negative unrealized PnL
LossOverLimit ==
    LET unrealized == positions[Symbol].unrealized_pnl
        total == RAdd(balance, unrealized)
    IN  /\ positions[Symbol] # NoPosition
        /\ unrealized[1] < 0
        /\ total[1] # 0
        /\ RSub(RMul(RDiv(RNeg(unrealized), total), RInt(100)), RInt(5))[1] > 0

Stopping == ~is_running /\ pc \in {"sleep", "loop"}

C30_OrderlyStopOnLossLimit ==
    /\ [][(pc = "log" /\ LossOverLimit /\ pc' # "log") =>
             (~is_running' /\ pc' = "sleep")]_vars
    /\ [][Stopping => (~is_running' /\ pc' \in {"sleep", "loop", "returned"})]_vars
    /\ (Stopping ~> pc = "returned")

\* stopped by the loss limit, before run() has returned
C30_Witness ==
    /\ Stopping
    /\ LossOverLimit

(***************************************************************************)
(* C31.  The orderly stop flushes the final statistics in every reachable  *)
(* simulator state: stop() completes without error, and the statistics     *)
(* supply trade count, total realized PnL, total commission, win rate,     *)
(* current balance and total return also when the trade log is empty (win  *)
(* rate 0, current balance = starting balance, total return 0).            *)
(***************************************************************************)
StatisticsFields ==
    {"total_trades", "total_pnl", "total_commission", "win_rate",
     "current_balance", "total_return"}

\* the statistics stop() reads, complete and with the values of an empty log
StatisticsFlushed ==
    LET stats == GetStatistics
    IN  /\ StatisticsFields \subseteq DOMAIN stats
        /\ trades = <<>> =>
               /\ Get(stats, "total_trades", -1) = 0
               /\ Get(stats, "win_rate", NaN) = RZero
               /\ Get(stats, "current_balance", NaN) = balance
               /\ Get(stats, "total_return", NaN) = RZero

C31_StopFlushesStatistics ==
    pc \in {"returned", "raised"} => (pc = "returned" /\ StatisticsFlushed)

\* what holds: stop() completes and reports all six numbers once a trade is
\* recorded
C31_StopFlushesStatisticsAfterTrade ==
    (pc \in {"returned", "raised"} /\ trades # <<>>) =>
        (pc = "returned" /\ StatisticsFields \subseteq DOMAIN GetStatistics)

\* a run that ended with trades recorded
C31_EndedWithTrades == ~(pc = "returned" /\ trades # <<>>)

(***************************************************************************)
(* C32.  With a run-duration bound the run loop terminates: once the       *)
(* elapsed time exceeds the bound (or is_running is cleared) the loop      *)
(* stops before the next sleep: no sleep and no further decision cycle     *)
(* follow the cycle during which the bound was passed.  This holds for     *)
(* every bound supplied, including 0.                                      *)
(***************************************************************************)
\* a bound was given and the elapsed time exceeds it
BoundPassed == duration # <<>> /\ elapsed > duration[1]

InCycle == pc \in {"mark", "stops", "analyze", "execute", "log", "except"}

\* the engine never sleeps with the bound passed or with is_running cleared
C32_StopsBeforeNextSleep ==
    pc = "sleep" => (is_running /\ ~BoundPassed)

\* what holds: at the loop test a positive bound that is passed, or a
\* cleared is_running, ends the run
C32_StopsAtLoopTest ==
    [][(pc = "loop" /\ (~is_running \/ (BoundPassed /\ duration[1] > 0))) =>
          pc' \in {"loop", "returned", "raised"}]_vars

\* a sleep begun with a positive bound already passed
C32_SleepsPastBound ==
    ~(pc = "sleep" /\ is_running /\ BoundPassed /\ duration[1] > 0)

\* a cycle begun with the bound 0 passed
C32_CycleAfterBoundZero ==
    ~(InCycle /\ duration = <<0>> /\ elapsed > 0)

(***************************************************************************)
(* C33.  Accounting identity of the simulator: after any sequence of       *)
(* place_order, cancel_order, mark-to-market and stop-check calls,         *)
(* cash = starting balance - (sum of the commissions of all recorded       *)
(* trades) + (sum of the PnL realized by all full and partial closes).     *)
(* Opening and adding to a position change cash by the commission only,    *)
(* and rejected orders, limit orders, cancels and mark-to-market do not    *)
(* change cash.                                                            *)
(***************************************************************************)
\* the book of one symbol after the trades ts[i..], replayed from the book
\* <<side, entry, size>> and the PnL realized so far
RECURSIVE Replayed(_, _, _, _)
Replayed(ts, i, book, realized) ==
    IF i > Len(ts)
    THEN realized
    ELSE LET t == ts[i]
             dir == IF t.side = "buy" THEN "long" ELSE "short"
         IN  IF book[1] = "none"
             THEN Replayed(ts, i + 1, <<dir, t.price, t.size>>, realized)
             ELSE IF book[1] = dir
             THEN Replayed(ts, i + 1,
                           <<dir,
                             RDiv(RAdd(RMul(book[2], book[3]), RMul(t.price, t.size)),
                                  RAdd(book[3], t.size)),
                             RAdd(book[3], t.size)>>,
                           realized)
             ELSE LET closed == IF RSub(t.size, book[3])[1] >= 0 THEN book[3] ELSE t.size
                      move == IF book[1] = "long"
                              THEN RSub(t.price, book[2])
                              ELSE RSub(book[2], t.price)
                      gain == RMul(move, closed)
                  IN  IF closed = book[3]
                      THEN Replayed(ts, i + 1, <<"none", RZero, RZero>>,
                                    RAdd(realized, gain))
                      ELSE Replayed(ts, i + 1,
                                    <<book[1], book[2], RSub(book[3], t.size)>>,
                                    RAdd(realized, gain))

TradesOf(s) == SelectSeq(trades, LAMBDA t : t.symbol = s)

RECURSIVE RealizedOver(_)
RealizedOver(symbols) ==
    IF symbols = {}
    THEN RZero
    ELSE LET s == CHOOSE x \in symbols : TRUE
         IN  RAdd(Replayed(TradesOf(s), 1, <<"none", RZero, RZero>>, RZero),
                  RealizedOver(symbols \ {s}))

RECURSIVE CommissionsOf(_, _)
CommissionsOf(ts, i) ==
    IF i > Len(ts)
    THEN RZero
    ELSE RAdd(RMul(RMul(ts[i].size, ts[i].price), Rat(1, 1000)),
              CommissionsOf(ts, i + 1))

CashIdentity ==
    RSub(RAdd(balance, CommissionsOf(trades, 1)),
         RAdd(RInt(10000), RealizedOver(DOMAIN positions))) = RZero

\* the last trade opened a position or added to one
LastTradeOpensOrAdds ==
    /\ trades' = Append(trades, trades'[Len(trades')])
    /\ LET t == trades'[Len(trades')]
       IN  \/ positions[t.symbol] = NoPosition
           \/ positions[t.symbol].side = (IF t.side = "buy" THEN "long" ELSE "short")

C33_AccountingIdentity ==
    /\ [](CashIdentity)
    /\ [][trades' = trades => balance' = balance]_vars
    /\ [][(trades' # trades /\ LastTradeOpensOrAdds) =>
             LET t == trades'[Len(trades')]
             IN  RSub(RSub(balance, balance'),
                      RMul(RMul(t.size, t.price), Rat(1, 1000))) = RZero]_vars

\* a close that realized a PnL is in the log, after the open
C33_Witness ==
    /\ Len(trades) >= 2
    /\ RealizedOver(DOMAIN positions) # RZero
    /\ balance # RSub(RInt(10000), CommissionsOf(trades, 1))

\* a rejected order, a pending limit order and a cancel lie behind
C33_WitnessNoCash ==
    /\ order_counter > Len(trades) + Cardinality(DOMAIN orders)
    /\ trades # <<>>

(***************************************************************************)
(* C34.  The strategy's action is determined by the position state: with   *)
(* no open position it emits only hold, buy or sell; with an open position *)
(* only hold, close or pyramid, and never pyramid when the position's      *)
(* pyramid level is at or above the configured 3 levels; every call to     *)
(* analyze returns exactly one action of {hold, buy, sell, close,          *)
(* pyramid}.                                                               *)
(***************************************************************************)
ActionFitsPosition(action, position) ==
    /\ action \in {"hold", "buy", "sell", "close", "pyramid"}
    /\ position = NoPosition => action \in {"hold", "buy", "sell"}
    /\ position # NoPosition => action \in {"hold", "close", "pyramid"}
    /\ action = "pyramid" => position.pyramiding_level < 3

C34_ActionByPositionState ==
    signal # NoSignal =>
        ActionFitsPosition(signal.result.action, signal.call.current_position)

\* what holds: the same for a call without a position or with one entered at
\* a price other than 0
C34_ActionByPositionStateWithEntry ==
    (/\ signal # NoSignal
     /\ \/ signal.call.current_position = NoPosition
        \/ signal.call.current_position.entry_price # RZero) =>
        ActionFitsPosition(signal.result.action, signal.call.current_position)

\* a pyramid signal is returned
C34_EveryActionReturned ==
    ~(signal # NoSignal /\ signal.result.action = "pyramid")

(***************************************************************************)
(* C35.  The available cash of the simulator is never negative: starting   *)
(* from a non-negative balance, after any sequence of accepted orders at   *)
(* any positive prices (opens with leverage >= 1, adds, partial and full   *)
(* closes, stop-triggered closes) cash >= 0 holds.                         *)
(***************************************************************************)
C35_CashNeverNegative == RSub(balance, RZero)[1] >= 0

\* what holds: an accepted order that opens a position or adds to one
\* leaves non-negative cash non-negative
C35_OpensKeepCashNonNegative ==
    [][(balance[1] >= 0 /\ trades' # trades /\ LastTradeOpensOrAdds) =>
          RSub(balance', RZero)[1] >= 0]_vars

\* the position is closed at a loss above the cash
C35_ClosedBelowZero ==
    ~(balance[1] < 0 /\ positions["BTC-USDT"] = NoPosition /\ Len(trades) = 2)

(***************************************************************************)
(* C36.  An accepted opposite-side order whose size exceeds the position's *)
(* size closes the position and never reverses it: the position is         *)
(* removed, the realized PnL is computed on the position's size (not the   *)
(* order's), no position of the opposite side is opened for the excess,    *)
(* while the commission and the recorded trade use the full order size.    *)
(***************************************************************************)
\* this step recorded a trade against the position of its symbol, larger
\* than the position
OversizedCloseTraded ==
    /\ Len(trades') = Len(trades) + 1
    /\ LET t == trades'[Len(trades')]
           held == positions[t.symbol]
       IN  /\ held # NoPosition
           /\ held.side = (IF t.side = "buy" THEN "short" ELSE "long")
           /\ RSub(t.size, held.size)[1] > 0

\* the trade carries the size of the order placed
TradeCarriesOrderSize ==
    \A o \in OrderInputs :
        (PlaceOrder(o) /\ OversizedCloseTraded) =>
            trades'[Len(trades')].size = o.size

\* flat afterwards; cash moved by the commission on the trade's size and the
\* PnL on the position's size
ClosedOnHeldSize ==
    OversizedCloseTraded =>
        LET t == trades'[Len(trades')]
            held == positions[t.symbol]
            move == IF held.side = "long"
                    THEN RSub(t.price, held.entry_price)
                    ELSE RSub(held.entry_price, t.price)
            fee == RMul(RMul(t.size, t.price), Rat(1, 1000))
        IN  /\ positions'[t.symbol] = NoPosition
            /\ t.commission = fee
            /\ RSub(RAdd(balance', fee), RAdd(balance, RMul(move, held.size))) = RZero

C36_OversizedCloseNeverReverses ==
    [][TradeCarriesOrderSize /\ ClosedOnHeldSize]_vars

\* flat after 0.1 was opened and an opposite order of 0.2 at another price
\* was executed
C36_Witness ==
    /\ Len(trades) = 2
    /\ trades[1].size = Rat(1, 10)
    /\ trades[2].size = Rat(2, 10)
    /\ trades[1].side # trades[2].side
    /\ trades[1].price # trades[2].price
    /\ positions["BTC-USDT"] = NoPosition

(***************************************************************************)
(* C37.  A stop_loss or take_profit of 0 means "not set": a position       *)
(* opened by the simulator starts with stop_loss = 0 and take_profit = 0,  *)
(* and as long as both stay 0 the stop check closes nothing at any price;  *)
(* with only one of them set, only that one can trigger a close.           *)
(***************************************************************************)
\* a position appears where there was none
OpenedUnset ==
    \A s \in DOMAIN positions :
        (positions[s] = NoPosition /\ positions'[s] # NoPosition) =>
            /\ positions'[s].stop_loss = RZero
            /\ positions'[s].take_profit = RZero

\* the price is on the closing side of the level
Crossed(position, level, price, losing) ==
    IF (position.side = "long") = losing
    THEN RSub(level, price)[1] >= 0
    ELSE RSub(price, level)[1] >= 0

\* the stop check on a position with neither level, or with one level
UnsetNeverCloses ==
    \A s \in DOMAIN positions :
        (CheckStopLossTakeProfit(s) /\ positions[s] # NoPosition) =>
            LET held == positions[s]
                price == GetCurrentPrice(s)
                closed == trades' # trades \/ positions' # positions
                                           \/ balance' # balance
            IN  /\ (held.stop_loss = RZero /\ held.take_profit = RZero) => ~closed
                /\ (held.take_profit = RZero /\ closed) =>
                       Crossed(held, held.stop_loss, price, TRUE)
                /\ (held.stop_loss = RZero /\ closed) =>
                       Crossed(held, held.take_profit, price, FALSE)

C37_ZeroMeansNotSet ==
    [][OpenedUnset /\ UnsetNeverCloses]_vars

\* a short without levels, marked at a price above its entry
C37_Witness ==
    LET held == positions["BTC-USDT"]
    IN  /\ held # NoPosition
        /\ held.side = "short"
        /\ held.stop_loss = RZero
        /\ held.take_profit = RZero
        /\ held.unrealized_pnl[1] < 0
        /\ GetCurrentPrice("BTC-USDT") # held.entry_price

\* closed by the one level that was set
C37_WitnessOneLevel ==
    /\ Len(trades) = 2
    /\ order_counter = 1
    /\ positions["BTC-USDT"] = NoPosition

(***************************************************************************)
(* C38.  A market order placed while the simulator has no price for the    *)
(* symbol (no cached 1-minute bar, so get_current_price returns 0.0) opens *)
(* no position and records no trade; equivalently, every open position in  *)
(* every reachable state has entry_price > 0.                              *)
(***************************************************************************)
C38_NoPositionWithoutPrice ==
    /\ \A s \in DOMAIN positions :
          positions[s] # NoPosition => positions[s].entry_price[1] > 0
    /\ \A i \in 1..Len(trades) : trades[i].price[1] > 0

\* what holds: a position entered at 0 is opened only while no bar is cached
C38_EntryAtZeroOnlyWithoutBars ==
    [][\A s \in DOMAIN positions :
          (positions[s] = NoPosition /\ positions'[s] # NoPosition
              /\ candle_cache[s] # <<>>) =>
          positions'[s].entry_price[1] > 0]_vars

(***************************************************************************)
(* C39.  cancel_order(id) returns true exactly when id is in the pending   *)
(* map and then removes that order and nothing else; it returns false and  *)
(* changes nothing for an unknown id, for the id of a market order and for *)
(* an id already cancelled (a second cancel of the same id returns false); *)
(* cancel never changes cash, positions or the trade log.                  *)
(***************************************************************************)
\* ids a caller may pass: issued ones and one never issued
CancelIds == 1..(MaxOrders + 1)

Cancelled(id) ==
    CancelOrder(id) =>
        /\ CancelOrderReturns(id) <=> id \in DOMAIN orders
        /\ CancelOrderReturns(id) =>
               /\ DOMAIN orders' = DOMAIN orders \ {id}
               /\ \A other \in DOMAIN orders' : orders'[other] = orders[other]
        /\ ~CancelOrderReturns(id) => orders' = orders
        /\ id > order_counter => ~CancelOrderReturns(id)
        /\ id \notin DOMAIN orders'
        /\ UNCHANGED <<balance, positions, trades, order_counter>>

\* a market order never enters the pending map, so its id is never there
MarketIdNotPending ==
    \A o \in OrderInputs :
        (PlaceOrder(o) /\ o.order_type = "market") =>
            (order_counter + 1) \notin DOMAIN orders'

\* an id once out of the map stays out
GoneStaysGone ==
    \A id \in 1..order_counter :
        id \notin DOMAIN orders => id \notin DOMAIN orders'

C39_CancelOrder ==
    [][(\A id \in CancelIds : Cancelled(id)) /\ MarketIdNotPending /\ GoneStaysGone]_vars

\* the first of two limit orders was cancelled: without a cached bar every
\* market order would have left a trade
C39_Witness ==
    /\ order_counter = 2
    /\ DOMAIN orders = {2}
    /\ trades = <<>>
    /\ candle_cache["BTC-USDT"] = <<>>

(***************************************************************************)
(* C40.  Order ids are unique over the whole run: every place_order call   *)
(* (market or limit, accepted or rejected) increments the order counter by *)
(* exactly 1 and returns the id built from it, so ids are strictly         *)
(* increasing, an id is never reused after its order is cancelled or       *)
(* executed, and the keys of the pending map are always ids that were      *)
(* issued.                                                                 *)
(***************************************************************************)
\* the numbers of the ids issued so far
Issued == 1..order_counter

PlacedWithNewId ==
    \A o \in OrderInputs :
        PlaceOrder(o) =>
            /\ order_counter' = order_counter + 1
            /\ PlaceOrderReturns(o) = <<"paper_", order_counter'>>
            /\ PlaceOrderReturns(o)[2] \notin Issued
            /\ \A id \in Issued : PlaceOrderReturns(o)[2] > id

\* the counter moves in place_order only, and never back
CounterOnlyGrows ==
    /\ order_counter' >= order_counter
    /\ order_counter' # order_counter => \E o \in OrderInputs : PlaceOrder(o)

C40_OrderIdsUnique ==
    /\ [](DOMAIN orders \subseteq Issued)
    /\ [][PlacedWithNewId /\ CounterOnlyGrows]_vars

\* two ids issued at a cached price and neither order left a trade or is
\* pending: each was rejected or cancelled
C40_Witness ==
    /\ order_counter = 2
    /\ orders = <<>>
    /\ trades = <<>>
    /\ candle_cache["BTC-USDT"] # <<>>

====
